---- MODULE Spec2Model ----
(***************************************************************************)
(* A model of imgv, a Direct3D11 image viewer: the Transform2D algebra of  *)
(* math.rs over IEEE-754 binary32 values, the directory navigation of      *)
(* browse.rs, the grow-only back buffer of GraphicsD3D11 and the render    *)
(* loop of main.rs with its window thread and decode thread.               *)
(***************************************************************************)
EXTENDS Integers, Sequences, FiniteSets, TLC

(***************************************************************************)
(* f32.  A value is [k, s, m, e]: kind "fin", "inf" or "nan", sign bit s,  *)
(* and for a finite value the magnitude m * 2^e.  Canonical form: zero is  *)
(* m = 0, e = 0; a normal number has 2^23 <= m < 2^24 and                  *)
(* -149 <= e <= 104; a subnormal has 0 < m < 2^23 and e = -149; inf and    *)
(* nan carry m = 0, e = 0 and nan carries s = 0.  Every operation rounds   *)
(* to nearest, ties to even, as the hardware does.                         *)
(***************************************************************************)
F32_MANT_BITS == 24
F32_MIN_EXP == -149
F32_MAX_EXP == 104

Pow2(n) == 2 ^ n

RECURSIVE BitLen(_)
BitLen(M) == IF M = 0 THEN 0 ELSE 1 + BitLen(M \div 2)

Max2(a, b) == IF a >= b THEN a ELSE b

f32_fin(s, m, e) == [k |-> "fin", s |-> s, m |-> m, e |-> e]
f32_zero(s) == f32_fin(s, 0, 0)
f32_inf(s) == [k |-> "inf", s |-> s, m |-> 0, e |-> 0]
f32_nan == [k |-> "nan", s |-> 0, m |-> 0, e |-> 0]

IsNan(a) == a.k = "nan"
IsInf(a) == a.k = "inf"
IsZero(a) == a.k = "fin" /\ a.m = 0
IsFinite(a) == a.k = "fin"

\* The last step of rounding: a mantissa and exponent as an f32, with the
\* inexact flag.
f32_pack(s, m1, e1, inexact) ==
    IF m1 = 0 THEN [v |-> f32_zero(s), x |-> inexact]
    ELSE IF e1 > F32_MAX_EXP THEN [v |-> f32_inf(s), x |-> TRUE]
    ELSE [v |-> f32_fin(s, m1, e1), x |-> inexact]

\* A rounded-up mantissa of 2^24 carries into the exponent.
f32_round_carry(s, q1, et, inexact) ==
    IF q1 = Pow2(F32_MANT_BITS) THEN f32_pack(s, Pow2(F32_MANT_BITS - 1), et + 1, inexact)
    ELSE f32_pack(s, q1, et, inexact)

\* Round to nearest, ties to even: q is the kept part, r the dropped part,
\* half the weight of the first dropped bit.
f32_round_up(s, q, r, half, et, sticky) ==
    f32_round_carry(s,
                    IF r > half \/ (r = half /\ (sticky \/ q % 2 = 1)) THEN q + 1 ELSE q,
                    et, r # 0 \/ sticky)

\* M split at the bit of weight 2 * half.
f32_round_split(s, M, half, et, sticky) ==
    f32_round_up(s, (M \div half) \div 2, M - ((M \div half) \div 2) * half * 2,
                 half, et, sticky)

\* M * 2^E rounded to a mantissa in units of 2^et.
f32_round_at(s, M, E, sticky, et) ==
    IF et <= E THEN
        IF et > F32_MAX_EXP THEN [v |-> f32_inf(s), x |-> TRUE]
        ELSE [v |-> f32_fin(s, M * Pow2(E - et), et), x |-> sticky]
    ELSE IF et - E > 31 THEN [v |-> f32_zero(s), x |-> TRUE]
    ELSE f32_round_split(s, M, Pow2(et - E - 1), et, sticky)

\* The magnitude M * 2^E (plus, when sticky, a nonzero amount below one unit
\* of M) rounded to the nearest f32, ties to even.  A caller that passes
\* sticky gives M at least 25 significant bits.  x tells whether the result
\* differs from the exact value.
f32_round(s, M, E, sticky) ==
    IF M = 0 /\ ~sticky THEN [v |-> f32_zero(s), x |-> FALSE]
    ELSE f32_round_at(s, M, E, sticky,
                      Max2(E + BitLen(M) - F32_MANT_BITS, F32_MIN_EXP))

\* A finite nonzero value with its mantissa shifted up to 24 bits (the
\* exponent may then lie below F32_MIN_EXP).
f32_norm_m(a) == a.m * Pow2(F32_MANT_BITS - BitLen(a.m))
f32_norm_e(a) == a.e - (F32_MANT_BITS - BitLen(a.m))

\* i32/u32 as f32
f32_from_int(i) ==
    IF i >= 0 THEN f32_round(0, i, 0, FALSE).v ELSE f32_round(1, 0 - i, 0, FALSE).v

f32_neg(a) == IF IsNan(a) THEN a ELSE [a EXCEPT !.s = 1 - a.s]

f32_abs(a) == [a EXCEPT !.s = 0]

\* The sign of a product or quotient
f32_sign_xor(a, b) == (a.s + b.s) % 2

\* The 48-bit product as a high part H (above bit 24) and a low part L,
\* rounded once.
f32_mul_hl(s, E, H, L) == f32_round(s, H * 64 + (L \div 262144), E, L % 262144 # 0)

f32_mul_low(s, E, h, lowfull) ==
    f32_mul_hl(s, E, h + (lowfull \div 16777216), lowfull % 16777216)

f32_mul_limbs(s, E, hh, mid, ll) ==
    f32_mul_low(s, E, hh + (mid \div 4096), (mid % 4096) * 4096 + ll)

\* The product of two 24-bit mantissas, by 12-bit limbs
f32_mul_norm(s, ma, mb, E) ==
    f32_mul_limbs(s, E,
                  (ma \div 4096) * (mb \div 4096),
                  (ma \div 4096) * (mb % 4096) + (ma % 4096) * (mb \div 4096),
                  (ma % 4096) * (mb % 4096))

\* a * b, with the inexact flag
f32_mul_r(a, b) ==
    IF IsNan(a) \/ IsNan(b) THEN [v |-> f32_nan, x |-> FALSE]
    ELSE IF IsInf(a) \/ IsInf(b) THEN
        IF IsZero(a) \/ IsZero(b) THEN [v |-> f32_nan, x |-> FALSE]
        ELSE [v |-> f32_inf(f32_sign_xor(a, b)), x |-> FALSE]
    ELSE IF IsZero(a) \/ IsZero(b) THEN [v |-> f32_zero(f32_sign_xor(a, b)), x |-> FALSE]
    ELSE f32_mul_norm(f32_sign_xor(a, b), f32_norm_m(a), f32_norm_m(b),
                      f32_norm_e(a) + f32_norm_e(b) + 18)

f32_mul(a, b) == f32_mul_r(a, b).v

\* Long division of 24-bit mantissas, 7 quotient bits a step; the remainder
\* is the sticky part.
RECURSIVE f32_div_steps(_, _, _, _, _, _)
f32_div_steps(s, E, q, r, d, k) ==
    IF k = 0 THEN f32_round(s, q, E, r # 0)
    ELSE f32_div_steps(s, E, q * 128 + ((r * 128) \div d), (r * 128) % d, d, k - 1)

\* a / b, with the inexact flag
f32_div_r(a, b) ==
    IF IsNan(a) \/ IsNan(b) THEN [v |-> f32_nan, x |-> FALSE]
    ELSE IF IsInf(a) THEN
        IF IsInf(b) THEN [v |-> f32_nan, x |-> FALSE]
        ELSE [v |-> f32_inf(f32_sign_xor(a, b)), x |-> FALSE]
    ELSE IF IsInf(b) THEN [v |-> f32_zero(f32_sign_xor(a, b)), x |-> FALSE]
    ELSE IF IsZero(b) THEN
        IF IsZero(a) THEN [v |-> f32_nan, x |-> FALSE]
        ELSE [v |-> f32_inf(f32_sign_xor(a, b)), x |-> FALSE]
    ELSE IF IsZero(a) THEN [v |-> f32_zero(f32_sign_xor(a, b)), x |-> FALSE]
    ELSE f32_div_steps(f32_sign_xor(a, b), f32_norm_e(a) - f32_norm_e(b) - 28,
                       f32_norm_m(a) \div f32_norm_m(b), f32_norm_m(a) % f32_norm_m(b),
                       f32_norm_m(b), 4)

f32_div(a, b) == f32_div_r(a, b).v

\* The sum of two magnitudes X and Y in units of 2^E, with signs hs and ls;
\* lost tells that Y dropped nonzero bits.
f32_add_aligned(hs, ls, X, Y, E, lost) ==
    IF hs = ls THEN f32_round(hs, X + Y, E, lost)
    ELSE IF lost THEN f32_round(hs, X - Y - 1, E, TRUE)
    ELSE IF X = Y THEN [v |-> f32_zero(0), x |-> FALSE]
    ELSE IF X > Y THEN f32_round(hs, X - Y, E, FALSE)
    ELSE f32_round(ls, Y - X, E, FALSE)

\* hi + lo where hi has the larger exponent: three guard bits, and lo
\* shifted down to hi's exponent.
f32_add_ordered(hi, lo) ==
    f32_add_aligned(hi.s, lo.s, hi.m * 8,
                    IF hi.e - lo.e > 27 THEN 0 ELSE (lo.m * 8) \div Pow2(hi.e - lo.e),
                    hi.e - 3,
                    IF hi.e - lo.e > 27 THEN TRUE ELSE (lo.m * 8) % Pow2(hi.e - lo.e) # 0)

\* a + b, with the inexact flag
f32_add_r(a, b) ==
    IF IsNan(a) \/ IsNan(b) THEN [v |-> f32_nan, x |-> FALSE]
    ELSE IF IsInf(a) THEN
        IF IsInf(b) /\ a.s # b.s THEN [v |-> f32_nan, x |-> FALSE]
        ELSE [v |-> a, x |-> FALSE]
    ELSE IF IsInf(b) THEN [v |-> b, x |-> FALSE]
    ELSE IF IsZero(a) /\ IsZero(b) THEN
        [v |-> f32_zero(IF a.s = 1 /\ b.s = 1 THEN 1 ELSE 0), x |-> FALSE]
    ELSE IF IsZero(a) THEN [v |-> b, x |-> FALSE]
    ELSE IF IsZero(b) THEN [v |-> a, x |-> FALSE]
    ELSE IF b.e > a.e THEN f32_add_ordered(b, a)
    ELSE f32_add_ordered(a, b)

f32_add(a, b) == f32_add_r(a, b).v

f32_sub_r(a, b) == f32_add_r(a, f32_neg(b))

f32_sub(a, b) == f32_sub_r(a, b).v

\* a == b as f32 compares: a nan equals nothing, the two zeros are equal
f32_eq(a, b) ==
    /\ ~IsNan(a)
    /\ ~IsNan(b)
    /\ \/ a = b
       \/ IsZero(a) /\ IsZero(b)

\* a < b
f32_lt(a, b) ==
    /\ ~IsNan(a)
    /\ ~IsNan(b)
    /\ ~f32_eq(a, b)
    /\ f32_sub(a, b).s = 1

\* a >= b
f32_ge(a, b) == ~IsNan(a) /\ ~IsNan(b) /\ ~f32_lt(a, b)

\* a.m split at the binary point, rounded half away from zero
f32_round_half_away_unit(a, unit) ==
    f32_round(a.s, IF 2 * (a.m % unit) >= unit THEN (a.m \div unit) + 1 ELSE a.m \div unit,
              0, FALSE).v

\* f32::round: the nearest integer, halfway cases away from zero
f32_round_half_away(a) ==
    IF ~IsFinite(a) \/ IsZero(a) \/ a.e >= 0 THEN a
    ELSE IF 0 - a.e > F32_MANT_BITS + 1 THEN f32_zero(a.s)
    ELSE f32_round_half_away_unit(a, Pow2(0 - a.e))

(***************************************************************************)
(* math.rs: float2 (cgmath::Vector2<f32>), Box2D and Transform2D.          *)
(***************************************************************************)
float2_new(x, y) == [x |-> x, y |-> y]

F32_ZERO == f32_zero(0)
F32_ONE == f32_from_int(1)
F32_HALF == f32_div(f32_from_int(1), f32_from_int(2))

FLOAT2_ONE == float2_new(F32_ONE, F32_ONE)
FLOAT2_ZERO == float2_new(F32_ZERO, F32_ZERO)

float2_add(v, w) == float2_new(f32_add(v.x, w.x), f32_add(v.y, w.y))
float2_sub(v, w) == float2_new(f32_sub(v.x, w.x), f32_sub(v.y, w.y))
float2_neg(v) == float2_new(f32_neg(v.x), f32_neg(v.y))
mul_element_wise(v, w) == float2_new(f32_mul(v.x, w.x), f32_mul(v.y, w.y))
div_element_wise(v, w) == float2_new(f32_div(v.x, w.x), f32_div(v.y, w.y))
\* s * v and s / v for a scalar s
float2_scale(s, v) == float2_new(f32_mul(s, v.x), f32_mul(s, v.y))
float2_rdiv(s, v) == float2_new(f32_div(s, v.x), f32_div(s, v.y))
\* both components rounded to the nearest integer
float2_round(v) == float2_new(f32_round_half_away(v.x), f32_round_half_away(v.y))

\* v == w and v != w, as the derived PartialEq of Vector2<f32> compares
float2_eq(v, w) == f32_eq(v.x, w.x) /\ f32_eq(v.y, w.y)
float2_ne(v, w) == ~float2_eq(v, w)

Box2D(min, max) == [min |-> min, max |-> max]

Transform2D(scale, offset) == [scale |-> scale, offset |-> offset]

new_identity == Transform2D(FLOAT2_ONE, FLOAT2_ZERO)

new_scale(scale) == Transform2D(scale, FLOAT2_ZERO)

new_translate(offset) == Transform2D(FLOAT2_ONE, offset)

translate(self, v) == [self EXCEPT !.offset = float2_add(self.offset, v)]

transform_point(self, v) == float2_add(mul_element_wise(v, self.scale), self.offset)

\* Box2D::dim
Box2D_dim(r) == float2_sub(r.max, r.min)

\* a transform_box that leaves the max corner where it was
transform_box_min_only(self, r) == Box2D(transform_point(self, r.min), r.max)

transform_box(self, r) ==
    Box2D(transform_point(self, r.min), transform_point(self, r.max))

\* inverse() with the sign of the offset kept
inverse_offset_not_negated(self) ==
    Transform2D(float2_rdiv(F32_ONE, self.scale),
                div_element_wise(self.offset, self.scale))

inverse(self) ==
    Transform2D(float2_rdiv(F32_ONE, self.scale),
                float2_neg(div_element_wise(self.offset, self.scale)))

\* concatenate() applying other first
concatenate_other_first(self, other) ==
    Transform2D(mul_element_wise(self.scale, other.scale),
                float2_add(mul_element_wise(other.offset, self.scale), self.offset))

concatenate(self, other) ==
    Transform2D(mul_element_wise(self.scale, other.scale),
                float2_add(mul_element_wise(self.offset, other.scale), other.offset))

(***************************************************************************)
(* Values the pure functions are applied to.                               *)
(***************************************************************************)
MaxCoord == 3

F32_0_8 == f32_div(f32_from_int(4), f32_from_int(5))
F32_1_2 == f32_div(f32_from_int(6), f32_from_int(5))

Coords == {f32_from_int(i) : i \in (0 - MaxCoord)..MaxCoord}

Points ==
    {float2_new(x, y) : x \in Coords, y \in Coords}
        \cup {float2_new(f32_from_int(123), f32_from_int(456))}

ScalePairs ==
    { FLOAT2_ONE,
      float2_new(f32_from_int(2), f32_from_int(3)),
      float2_new(f32_from_int(3), f32_from_int(4)),
      float2_new(F32_HALF, F32_HALF),
      float2_new(F32_0_8, F32_0_8),
      float2_new(F32_1_2, F32_1_2),
      float2_new(f32_from_int(-3), f32_div(F32_ONE, f32_from_int(16))),
      float2_new(F32_ZERO, f32_from_int(2)) }

OffsetPairs ==
    { FLOAT2_ZERO,
      float2_new(f32_from_int(4), f32_from_int(5)),
      float2_new(f32_from_int(5), f32_from_int(6)),
      float2_new(f32_div(f32_from_int(-5), f32_from_int(2)),
                 f32_div(F32_ONE, f32_from_int(10))),
      float2_new(f32_from_int(250), f32_from_int(-1373)) }

Transforms == {Transform2D(sc, off) : sc \in ScalePairs, off \in OffsetPairs}

Boxes ==
    { Box2D(FLOAT2_ZERO, FLOAT2_ONE),
      Box2D(float2_new(f32_from_int(1), f32_from_int(2)),
            float2_new(f32_from_int(3), f32_from_int(3))),
      Box2D(float2_new(f32_div(F32_ONE, f32_from_int(10)), F32_0_8),
            float2_new(F32_1_2, f32_from_int(2))),
      Box2D(float2_new(f32_from_int(-3), F32_1_2),
            float2_new(F32_0_8, f32_from_int(123))) }
             \cup {Box2D(a, b) : a \in {float2_new(c, c) : c \in Coords},
                                 b \in {float2_new(c, f32_neg(c)) : c \in Coords}}

(***************************************************************************)
(* browse.rs.  A file name is a sequence of characters; a directory is     *)
(* either unreadable or the sequence of its entries in enumeration order,  *)
(* each entry read successfully or not.                                    *)
(***************************************************************************)
None == [some |-> FALSE]
Some(x) == [some |-> TRUE, v |-> x]

AsciiLower ==
    ("A" :> "a") @@ ("B" :> "b") @@ ("C" :> "c") @@ ("D" :> "d")
        @@ ("E" :> "e") @@ ("F" :> "f") @@ ("G" :> "g") @@ ("H" :> "h")
        @@ ("I" :> "i") @@ ("J" :> "j") @@ ("K" :> "k") @@ ("L" :> "l")
        @@ ("M" :> "m") @@ ("N" :> "n") @@ ("O" :> "o") @@ ("P" :> "p")
        @@ ("Q" :> "q") @@ ("R" :> "r") @@ ("S" :> "s") @@ ("T" :> "t")
        @@ ("U" :> "u") @@ ("V" :> "v") @@ ("W" :> "w") @@ ("X" :> "x")
        @@ ("Y" :> "y") @@ ("Z" :> "z")

\* u8::to_ascii_lowercase: only A..Z change
to_ascii_lowercase_char(c) == IF c \in DOMAIN AsciiLower THEN AsciiLower[c] ELSE c

to_ascii_lowercase(w) == [i \in 1..Len(w) |-> to_ascii_lowercase_char(w[i])]

DotPositions(name) == {i \in 1..Len(name) : name[i] = "."}

\* Path::extension of a file name: the part after the last '.', none when
\* there is no '.' or when the only '.' is the first character
extension(name) ==
    IF DotPositions(name) = {} THEN None
    ELSE LET last == CHOOSE i \in DotPositions(name) :
                         \A j \in DotPositions(name) : j <= i
         IN  IF last = 1 THEN None
             ELSE Some(SubSeq(name, last + 1, Len(name)))

extensions ==
    << <<"j", "p", "g">>,
       <<"j", "p", "e", "g">>,
       <<"p", "n", "g">>,
       <<"g", "i", "f">>,
       <<"w", "e", "b", "p">>,
       <<"t", "i", "f">>,
       <<"t", "i", "f", "f">>,
       <<"t", "g", "a">>,
       <<"d", "d", "s">>,
       <<"b", "m", "p">>,
       <<"i", "c", "o">>,
       <<"h", "d", "r">>,
       <<"p", "b", "m">>,
       <<"p", "a", "m">>,
       <<"p", "p", "m">>,
       <<"p", "g", "m">>,
       <<"f", "f">> >>

\* is_compatible_file comparing the extension as it is spelled
is_compatible_file_case_sensitive(name) ==
    /\ extension(name).some
    /\ \E i \in 1..Len(extensions) : extensions[i] = extension(name).v

is_compatible_file(name) ==
    /\ extension(name).some
    /\ LET ext == to_ascii_lowercase(extension(name).v)
       IN  \E i \in 1..Len(extensions) : extensions[i] = ext

DirEntry(ok, name) == [ok |-> ok, name |-> name]

\* the local `files` of get_next_file: the entries read successfully whose
\* name is compatible, in enumeration order
filtered_files(entries) ==
    LET kept == SelectSeq(entries, LAMBDA f : f.ok /\ is_compatible_file(f.name))
    IN  [i \in 1..Len(kept) |-> kept[i].name]

\* Iterator::position: the first index holding file_name
position(files, file_name) ==
    IF \E i \in 1..Len(files) : files[i] = file_name
    THEN Some(CHOOSE i \in 1..Len(files) :
                  /\ files[i] = file_name
                  /\ \A j \in 1..(i - 1) : files[j] # file_name)
    ELSE None

\* get_next_file stepping round the ends of the list
get_next_file_wrapping(dir, file_name, direction) ==
    IF ~dir.readable THEN None
    ELSE LET files == filtered_files(dir.entries)
             pos == position(files, file_name)
         IN  IF ~pos.some THEN None
             ELSE IF direction = "Backward"
                  THEN Some(files[IF pos.v > 1 THEN pos.v - 1 ELSE Len(files)])
                  ELSE Some(files[IF pos.v + 1 <= Len(files) THEN pos.v + 1 ELSE 1])

\* Indices are 1-based here: the code's i is pos.v - 1.
get_next_file(dir, file_name, direction) ==
    IF ~dir.readable THEN None
    ELSE LET files == filtered_files(dir.entries)
             pos == position(files, file_name)
         IN  IF ~pos.some THEN None
             ELSE IF direction = "Backward" /\ pos.v - 1 > 0
                  THEN Some(files[pos.v - 1])
             ELSE IF direction = "Forward" /\ pos.v < Len(files)
                  THEN Some(files[pos.v + 1])
             ELSE None

StepDirection == {"Backward", "Forward"}

(***************************************************************************)
(* Directories and names the navigation functions are applied to.          *)
(***************************************************************************)
MaxDirLen == 4

NamePool ==
    { <<"a", ".", "p", "n", "g">>,
      <<"b", ".", "j", "p", "g">>,
      <<"c", ".", "t", "x", "t">>,
      <<"d", ".", "g", "i", "f">>,
      <<"E", ".", "P", "N", "G">>,
      <<"n", "o", "e", "x", "t">> }

Stems == {<<"a">>, <<"b", ".", "c">>, <<>>, <<".", "x">>}

TestExtensions ==
    {extensions[i] : i \in 1..Len(extensions)}
        \cup {<<"J", "P", "G">>, <<"P", "n", "G">>, <<"F", "F">>, <<"T", "I", "F", "F">>,
              <<"W", "e", "b", "P">>, <<"t", "x", "t">>, <<"p", "n">>, <<"p", "n", "g", "x">>,
              <<>>, <<"j", "p", "g", "~">>, <<"r", "s">>}

TestNames ==
    {stem \o <<".">> \o ext : stem \in Stems, ext \in TestExtensions}
        \cup {<<"p", "n", "g">>, <<"j", "p", "g">>, <<"a">>, <<".">>}
        \cup NamePool

RECURSIVE Listings(_)
\* the sequences of at most n entries with pairwise different names
Listings(n) ==
    IF n = 0 THEN {<<>>}
    ELSE LET shorter == Listings(n - 1)
         IN  shorter \cup
             {Append(l, DirEntry(TRUE, name)) :
                 l \in {k \in shorter : Len(k) = n - 1}, name \in NamePool}

DistinctNames(l) == \A i, j \in 1..Len(l) : l[i].name = l[j].name => i = j

\* one entry of the listing failing to read
WithFailedEntry(l) == {[l EXCEPT ![i].ok = FALSE] : i \in 1..Len(l)}

Directories ==
    LET ls == {l \in Listings(MaxDirLen) : DistinctNames(l)}
    IN  {[readable |-> FALSE, entries |-> <<>>]}
            \cup {[readable |-> TRUE, entries |-> l] : l \in ls}
            \cup {[readable |-> TRUE, entries |-> f] :
                     f \in UNION {WithFailedEntry(l) : l \in {k \in ls : Len(k) = 2}}}

BrowseCalls ==
    {[fn |-> "is_compatible_file", path |-> n] : n \in TestNames}
        \cup {[fn |-> "get_next_file", dir |-> d, file_name |-> n, direction |-> dr] :
                 d \in Directories, n \in NamePool, dr \in StepDirection}

(***************************************************************************)
(* GraphicsD3D11: the swap chain and its back buffer.  A render-target     *)
(* view or buffer texture is named by the number of the ResizeBuffers call *)
(* that made the buffers it refers to.  presented is the last frame given  *)
(* to the swap chain: the constants uploaded, the texture and render       *)
(* target bound, and the present interval.                                 *)
(***************************************************************************)
BACKBUFFER_ALIGN == 512
BACKBUFFER_DIM_LIMIT == 16384

\* the smallest multiple of alignment that is at least x
align_up(x, alignment) == ((x + alignment - 1) \div alignment) * alignment

BackBuffer(rtv, tex, dim) == [rtv |-> rtv, tex |-> tex, dim |-> dim]

\* GraphicsD3D11 as new() builds it before its call of update_backbuffer.
\* ops is what the last update_backbuffer did with the swapchain and its
\* views, each with the backbuffer the struct held at that moment.
GraphicsD3D11 ==
    [backbuffer |-> None, resizes |-> 0, panicked |-> FALSE, printed |-> None,
     presented |-> None, ops |-> <<>>]

\* the operation op, made with self as it is
Op(self, op) == [op |-> op, held |-> self.backbuffer]

\* self.backbuffer = None: the ComPtrs of the texture and the view are dropped
release_backbuffer(self) ==
    [self EXCEPT !.backbuffer = None, !.ops = Append(@, Op(self, "Release"))]

\* println!("update_backbuffer {:?}", new_dim); swapchain.ResizeBuffers(..)
ResizeBuffers(self, new_dim) ==
    [self EXCEPT !.resizes = @ + 1, !.printed = Some(new_dim),
                 !.ops = Append(@, Op(self, "ResizeBuffers"))]

\* GetBuffer, CreateRenderTargetView, self.backbuffer = Some(BackBuffer {..})
create_backbuffer(self, new_dim) ==
    [self EXCEPT !.backbuffer = Some(BackBuffer(self.resizes, self.resizes, new_dim)),
                 !.ops = Append(@, Op(self, "CreateRenderTargetView"))]

\* the assert!s on new_dim have failed
assert_failed(self) == [self EXCEPT !.panicked = TRUE]

\* the struct at the start of a call
update_backbuffer_begin(self) == [self EXCEPT !.printed = None, !.ops = <<>>]

\* update_backbuffer reallocating on every call
update_backbuffer_always(self, client_dim) ==
    LET new_dim == <<align_up(client_dim[1], BACKBUFFER_ALIGN),
                     align_up(client_dim[2], BACKBUFFER_ALIGN)>>
    IN  IF ~(new_dim[1] < BACKBUFFER_DIM_LIMIT /\ new_dim[2] < BACKBUFFER_DIM_LIMIT)
        THEN assert_failed(release_backbuffer(update_backbuffer_begin(self)))
        ELSE create_backbuffer(
                 ResizeBuffers(release_backbuffer(update_backbuffer_begin(self)), new_dim),
                 new_dim)

\* update_backbuffer resizing the buffers before it lets go of the old view
update_backbuffer_late_release(self, client_dim) ==
    LET new_dim == <<align_up(client_dim[1], BACKBUFFER_ALIGN),
                     align_up(client_dim[2], BACKBUFFER_ALIGN)>>
        fits == /\ self.backbuffer.some
                /\ self.backbuffer.v.dim[1] >= new_dim[1]
                /\ self.backbuffer.v.dim[2] >= new_dim[2]
    IN  IF fits THEN update_backbuffer_begin(self)
        ELSE IF ~(new_dim[1] < BACKBUFFER_DIM_LIMIT /\ new_dim[2] < BACKBUFFER_DIM_LIMIT)
        THEN assert_failed(release_backbuffer(update_backbuffer_begin(self)))
        ELSE create_backbuffer(
                 release_backbuffer(ResizeBuffers(update_backbuffer_begin(self), new_dim)),
                 new_dim)

\* update_backbuffer without the assert!s
update_backbuffer_unchecked(self, client_dim) ==
    LET new_dim == <<align_up(client_dim[1], BACKBUFFER_ALIGN),
                     align_up(client_dim[2], BACKBUFFER_ALIGN)>>
        fits == /\ self.backbuffer.some
                /\ self.backbuffer.v.dim[1] >= new_dim[1]
                /\ self.backbuffer.v.dim[2] >= new_dim[2]
    IN  IF fits THEN update_backbuffer_begin(self)
        ELSE create_backbuffer(
                 ResizeBuffers(release_backbuffer(update_backbuffer_begin(self)), new_dim),
                 new_dim)

\* update_backbuffer with the client-area size of the window at the time
\* of the call.  resizes counts the ResizeBuffers calls, printed is the
\* "update_backbuffer (w, h)" line the call wrote, if any.
update_backbuffer(self, client_dim) ==
    LET new_dim == <<align_up(client_dim[1], BACKBUFFER_ALIGN),
                     align_up(client_dim[2], BACKBUFFER_ALIGN)>>
        fits == /\ self.backbuffer.some
                /\ self.backbuffer.v.dim[1] >= new_dim[1]
                /\ self.backbuffer.v.dim[2] >= new_dim[2]
    IN  IF fits THEN update_backbuffer_begin(self)
        ELSE IF ~(new_dim[1] < BACKBUFFER_DIM_LIMIT /\ new_dim[2] < BACKBUFFER_DIM_LIMIT)
        THEN assert_failed(release_backbuffer(update_backbuffer_begin(self)))
        ELSE create_backbuffer(
                 ResizeBuffers(release_backbuffer(update_backbuffer_begin(self)), new_dim),
                 new_dim)

(***************************************************************************)
(* The window and the desktop it lives on.  os_window is what the window   *)
(* manager holds for the one window of the program: its rectangle on the   *)
(* screen, its style, its show state, its title, and whether part of it is *)
(* waiting to be painted.                                                  *)
(***************************************************************************)
RECT(left, top, right, bottom) ==
    [left |-> left, top |-> top, right |-> right, bottom |-> bottom]

make_empty_rect == RECT(0, 0, 0, 0)

dim(rect) == <<rect.right - rect.left, rect.bottom - rect.top>>

WINDOW_MIN_WIDTH == 320
WINDOW_MIN_HEIGHT == 240

\* GetSystemMetrics(SM_CXSCREEN), GetSystemMetrics(SM_CYSCREEN)
get_screen_dimensions == <<1920, 1080>>

\* GetSystemMetrics(SM_CXMAXIMIZED), GetSystemMetrics(SM_CYMAXIMIZED)
get_desktop_work_area == RECT(0, 0, 1936, 1056)

\* the borders and caption AdjustWindowRect adds around a client rectangle
\* for window_style
WindowFrame == RECT(8, 31, 8, 8)

AdjustWindowRect(rect) ==
    RECT(rect.left - WindowFrame.left, rect.top - WindowFrame.top,
         rect.right + WindowFrame.right, rect.bottom + WindowFrame.bottom)

\* Rust's i32 division, which truncates towards zero
i32_div(a, b) == IF a >= 0 THEN a \div b ELSE -((-a) \div b)

compute_client_rect(d) ==
    LET screen_dim == get_screen_dimensions
        window_pos == <<i32_div(screen_dim[1], 2) - i32_div(d[1], 2),
                        i32_div(screen_dim[2], 2) - i32_div(d[2], 2)>>
    IN  RECT(window_pos[1], window_pos[2], window_pos[1] + d[1], window_pos[2] + d[2])

GetWindowRect(os) == IF os.destroyed THEN make_empty_rect ELSE os.rect

\* the client area, with its top-left corner at (0, 0)
GetClientRect(os) ==
    IF os.destroyed THEN make_empty_rect
    ELSE IF os.popup THEN RECT(0, 0, dim(os.rect)[1], dim(os.rect)[2])
    ELSE RECT(0, 0,
              Max2(0, dim(os.rect)[1] - WindowFrame.left - WindowFrame.right),
              Max2(0, dim(os.rect)[2] - WindowFrame.top - WindowFrame.bottom))

get_client_rect_absolute(os) == GetClientRect(os)

get_window_rect_absolute(os) == GetWindowRect(os)

get_client_rect(os) ==
    LET window_rect == GetWindowRect(os)
        client_rect == GetClientRect(os)
    IN  RECT(client_rect.left + window_rect.left, client_rect.top + window_rect.top,
             client_rect.right + window_rect.left, client_rect.bottom + window_rect.top)

get_window_client_rect_dimensions(os) ==
    LET client_rect == get_client_rect(os)
    IN  <<client_rect.right - client_rect.left, client_rect.bottom - client_rect.top>>

(***************************************************************************)
(* Messages.  A native message carries its decoded parameters: the wheel   *)
(* delta, the button index, the pointer position, the key, the client size.*)
(***************************************************************************)
WindowCreated == [type |-> "WindowCreated"]

WindowClosed == [type |-> "WindowClosed"]

OpenFile(filename) == [type |-> "OpenFile", filename |-> filename]

NativeMessage(msg, param) == [type |-> "NativeMessage", msg |-> msg, param |-> param]

\* what window_proc sends on message_tx for a message of the window, once
\* WM_CREATE has stored the thread state
window_proc(msg, param) ==
    CASE msg = "WM_CREATE" -> <<WindowCreated>>
      [] msg = "WM_DESTROY" -> <<WindowClosed>>
      [] msg \in {"WM_GETMINMAXINFO", "WM_SYSCHAR"} -> <<>>
      [] msg = "WM_DROPFILES" -> <<OpenFile(param)>>
      [] OTHER -> <<NativeMessage(msg, param)>>

\* what the window manager makes of a change of the window rectangle or
\* style: the window procedure is called with WM_WINDOWPOSCHANGED, and with
\* WM_SIZE if the client area has a new size
WindowPosMessages(os, os2) ==
    IF os.destroyed THEN <<>>
    ELSE window_proc("WM_WINDOWPOSCHANGED", 0)
         \o (IF dim(GetClientRect(os2)) # dim(GetClientRect(os))
             THEN window_proc("WM_SIZE", dim(GetClientRect(os2)))
             ELSE <<>>)

\* SetWindowPos(hwnd, _, x, y, cx, cy, _), after the style has been set to
\* popup or not.  A sizeable window is kept at or above the minimum track
\* size the window procedure reports.  Returns the window and the messages
\* the window procedure is called with.
SetWindowPos(os, popup, x, y, cx, cy) ==
    LET w == IF popup THEN cx ELSE Max2(cx, WINDOW_MIN_WIDTH)
        h == IF popup THEN cy ELSE Max2(cy, WINDOW_MIN_HEIGHT)
        os2 == IF os.destroyed THEN os
               ELSE [os EXCEPT !.popup = popup, !.maximized = FALSE,
                               !.rect = RECT(x, y, x + w, y + h)]
    IN  [os |-> os2, msgs |-> WindowPosMessages(os, os2)]

\* ShowWindow(hwnd, SW_MAXIMIZE)
ShowWindowMaximize(os) ==
    LET area == get_desktop_work_area
        os2 == IF os.destroyed \/ os.maximized THEN os
               ELSE [os EXCEPT !.maximized = TRUE,
                               !.rect = RECT(-WindowFrame.left, -WindowFrame.left,
                                             area.right - WindowFrame.left,
                                             area.bottom - WindowFrame.left)]
    IN  [os |-> os2, msgs |-> IF os2 = os THEN <<>> ELSE WindowPosMessages(os, os2)]

SetWindowTextW(os, name) == IF os.destroyed THEN os ELSE [os EXCEPT !.title = name]

\* InvalidateRect(hwnd, null, 1)
InvalidateRect(os) == IF os.destroyed THEN os ELSE [os EXCEPT !.invalid = TRUE]

(***************************************************************************)
(* Window                                                                  *)
(***************************************************************************)
\* the window as CreateWindowExW makes it for Window::new(window_dim) and
\* as ShowWindow(hwnd, SW_SHOW) leaves it: shown, not yet painted
CreateWindow(window_dim) ==
    LET client_rect == AdjustWindowRect(compute_client_rect(window_dim))
    IN  [rect |-> client_rect, popup |-> FALSE, maximized |-> FALSE,
         title |-> "imgv", invalid |-> TRUE, destroyed |-> FALSE]

Window_new(window_dim) ==
    LET os == CreateWindow(window_dim)
    IN  [window_rect |-> get_window_rect_absolute(os),
         windowed_client_rect |-> get_client_rect(os),
         window_dim |-> window_dim,
         full_screen |-> FALSE]

\* results of the Window methods: the Window, the window manager's side,
\* and the messages the calls made the window procedure forward
set_full_screen(self, os, on) ==
    IF on
    THEN LET wh == get_screen_dimensions
             r == SetWindowPos(os, TRUE, 0, 0, wh[1], wh[2])
         IN  [self |-> [self EXCEPT !.windowed_client_rect = get_client_rect(os),
                                    !.window_dim = wh,
                                    !.full_screen = TRUE],
              os |-> r.os, msgs |-> r.msgs]
    ELSE LET rect == AdjustWindowRect(self.windowed_client_rect)
             w == rect.right - rect.left
             h == rect.bottom - rect.top
             r == SetWindowPos(os, FALSE, self.windowed_client_rect.left,
                               self.windowed_client_rect.top, w, h)
         IN  [self |-> [self EXCEPT !.window_dim = <<w, h>>, !.full_screen = FALSE],
              os |-> r.os, msgs |-> r.msgs]

set_image_size(self0, os0, d) ==
    LET fs == IF self0.full_screen THEN set_full_screen(self0, os0, FALSE)
              ELSE [self |-> self0, os |-> os0, msgs |-> <<>>]
        self == fs.self
        os == fs.os
        rect == AdjustWindowRect(compute_client_rect(d))
        desktop_rect == dim(get_desktop_work_area)
    IN  IF d[1] < desktop_rect[1] /\ d[2] < desktop_rect[2]
        THEN LET r == SetWindowPos(os, os.popup, rect.left, rect.top,
                                   rect.right - rect.left, rect.bottom - rect.top)
             IN  [self |-> [self EXCEPT !.window_dim = d,
                                        !.window_rect = get_window_rect_absolute(r.os)],
                  os |-> r.os, msgs |-> fs.msgs \o r.msgs]
        ELSE LET r == ShowWindowMaximize(os)
             IN  [self |-> self, os |-> r.os, msgs |-> fs.msgs \o r.msgs]

set_window_name(os, name) == SetWindowTextW(os, name)

INITIAL_WINDOW_DIM == <<500, 500>>

\* GraphicsD3D11::new without its call of update_backbuffer
GraphicsD3D11_new_without_backbuffer == GraphicsD3D11

\* GraphicsD3D11::new for the window main() opens
GraphicsD3D11_new ==
    update_backbuffer(GraphicsD3D11,
                      get_window_client_rect_dimensions(CreateWindow(INITIAL_WINDOW_DIM)))

(***************************************************************************)
(* The files of the machine.  A path is a directory and a file name; one   *)
(* directory holds images, a text file and a file no decoder accepts.      *)
(***************************************************************************)
Path(parent, file_name) == [parent |-> parent, file_name |-> file_name]

Ok(v) == [ok |-> TRUE, v |-> v]
Err == [ok |-> FALSE]

A_PNG == <<"a", ".", "p", "n", "g">>
B_JPG == <<"b", ".", "j", "p", "g">>
C_TXT == <<"c", ".", "t", "x", "t">>
D_GIF == <<"d", ".", "g", "i", "f">>
E_PNG == <<"e", ".", "p", "n", "g">>

\* std::fs::read_dir
read_dir(file_dir) ==
    IF file_dir = "photos"
    THEN [readable |-> TRUE,
          entries |-> <<DirEntry(TRUE, A_PNG), DirEntry(TRUE, B_JPG), DirEntry(TRUE, C_TXT),
                        DirEntry(TRUE, D_GIF), DirEntry(TRUE, E_PNG)>>]
    ELSE [readable |-> FALSE, entries |-> <<>>]

\* image::open: the pixel dimensions of the decoded image, or an error.
\* a.png and b.jpg have the same dimensions, larger than the desktop,
\* e.png is smaller, d.gif is damaged and c.txt is no image.
image_open(path) ==
    IF path.parent # "photos" THEN Err
    ELSE IF path.file_name \in {A_PNG, B_JPG} THEN Ok(<<2000, 1200>>)
    ELSE IF path.file_name = E_PNG THEN Ok(<<640, 480>>)
    ELSE Err

\* Texture::new: the texture holds the pixels of the decoded file
Texture_new(img, filename) == [dim |-> img, image |-> filename]

(***************************************************************************)
(* ViewerState and Constants                                               *)
(***************************************************************************)
ViewerState_new ==
    [texture |-> None,
     frame_number |-> 0,
     is_resizing |-> FALSE,
     is_dragging |-> FALSE,
     drag_origin |-> FLOAT2_ZERO,
     mouse_pos |-> FLOAT2_ZERO,
     viewport_dim |-> FLOAT2_ZERO,
     image_dim |-> FLOAT2_ZERO,
     xfm_window_to_image |-> new_identity]

Constants_new ==
    [image_dim |-> FLOAT2_ZERO,
     window_dim |-> FLOAT2_ZERO,
     mouse |-> FLOAT2_ZERO,
     xfm_viewport_to_image_uv |-> new_identity]

\* (a, b) of integers as a float2
float2_from(d) == float2_new(f32_from_int(d[1]), f32_from_int(d[2]))

decode_mouse_pos(lparam) == float2_from(lparam)

(***************************************************************************)
(* The body of the render loop works on the locals of main().  w holds     *)
(* them, together with what the calls of the body reach: the window        *)
(* manager's side of the window (os), the load requests sent (load_req_tx) *)
(* and the messages the window procedure forwarded because of calls made   *)
(* by the body (forwarded).                                                *)
(***************************************************************************)
\* a step that requests the neighbour and keeps the current path
switch_to_next_image_keep_path(w, direction) ==
    LET current_image_path == w.image_path.v
        file_name == get_next_file(read_dir(current_image_path.parent),
                                   current_image_path.file_name, direction)
    IN  IF file_name.some
        THEN [w EXCEPT !.load_req_tx = Append(@, Path(current_image_path.parent, file_name.v))]
        ELSE w

\* a step that goes round the ends of the directory
switch_to_next_image_wrapping(w, direction) ==
    LET current_image_path == w.image_path.v
        file_name == get_next_file_wrapping(read_dir(current_image_path.parent),
                                            current_image_path.file_name, direction)
    IN  IF file_name.some
        THEN LET path == Path(current_image_path.parent, file_name.v)
             IN  [w EXCEPT !.load_req_tx = Append(@, path), !.image_path = Some(path)]
        ELSE [w EXCEPT !.image_path = Some(current_image_path)]

switch_to_next_image(w, direction) ==
    LET current_image_path == w.image_path.v
        file_name == get_next_file(read_dir(current_image_path.parent),
                                   current_image_path.file_name, direction)
    IN  IF file_name.some
        THEN LET path == Path(current_image_path.parent, file_name.v)
             IN  [w EXCEPT !.load_req_tx = Append(@, path), !.image_path = Some(path)]
        ELSE [w EXCEPT !.image_path = Some(current_image_path)]

\* a wheel zoom about the corner of the window instead of the cursor
on_WM_MOUSEWHEEL_about_origin(w, scroll_delta) ==
    [w EXCEPT !.state.xfm_window_to_image =
                  concatenate(@, new_scale(IF scroll_delta > 0
                                           THEN float2_new(F32_0_8, F32_0_8)
                                           ELSE float2_new(F32_1_2, F32_1_2))),
              !.should_draw = TRUE,
              !.state.is_dragging = FALSE]

\* a wheel step that leaves a drag going
on_WM_MOUSEWHEEL_keep_drag(w, scroll_delta) ==
    [w EXCEPT !.state.xfm_window_to_image =
                  concatenate(@,
                      concatenate(
                          concatenate(
                              new_translate(float2_neg(
                                  transform_point(w.state.xfm_window_to_image,
                                                  w.state.mouse_pos))),
                              new_scale(IF scroll_delta > 0 THEN float2_new(F32_0_8, F32_0_8)
                                        ELSE float2_new(F32_1_2, F32_1_2))),
                          new_translate(transform_point(w.state.xfm_window_to_image,
                                                        w.state.mouse_pos)))),
              !.should_draw = TRUE]

\* a wheel step that halves or doubles the scale about the cursor
on_WM_MOUSEWHEEL_by_half(w, scroll_delta) ==
    LET zoom == IF scroll_delta > 0 THEN float2_new(F32_HALF, F32_HALF)
                ELSE float2_new(f32_from_int(2), f32_from_int(2))
        mouse_pos_img == transform_point(w.state.xfm_window_to_image, w.state.mouse_pos)
        zoom_transform ==
            concatenate(concatenate(new_translate(float2_neg(mouse_pos_img)),
                                    new_scale(zoom)),
                        new_translate(mouse_pos_img))
    IN  [w EXCEPT !.state.xfm_window_to_image = concatenate(@, zoom_transform),
                  !.should_draw = TRUE,
                  !.state.is_dragging = FALSE]

on_WM_MOUSEWHEEL(w, scroll_delta) ==
    LET zoom == IF scroll_delta > 0 THEN float2_new(F32_0_8, F32_0_8)
                ELSE float2_new(F32_1_2, F32_1_2)
        mouse_pos_img == transform_point(w.state.xfm_window_to_image, w.state.mouse_pos)
        zoom_transform ==
            concatenate(concatenate(new_translate(float2_neg(mouse_pos_img)),
                                    new_scale(zoom)),
                        new_translate(mouse_pos_img))
    IN  [w EXCEPT !.state.xfm_window_to_image = concatenate(@, zoom_transform),
                  !.should_draw = TRUE,
                  !.state.is_dragging = FALSE]

on_WM_LBUTTONDOWN(w) ==
    [w EXCEPT !.state.is_dragging = TRUE,
              !.state.drag_origin =
                  float2_sub(w.state.mouse_pos, inverse(w.state.xfm_window_to_image).offset)]

on_WM_LBUTTONUP(w) == [w EXCEPT !.state.is_dragging = FALSE]

on_WM_XBUTTONDOWN(w, button_index) ==
    IF w.image_path.some
    THEN IF button_index = 1 THEN switch_to_next_image(w, "Backward")
         ELSE IF button_index = 2 THEN switch_to_next_image(w, "Forward")
         ELSE w
    ELSE w

\* a drag that sets the offset without the scale
on_WM_MOUSEMOVE_unscaled(w, lparam) ==
    [w EXCEPT !.state.mouse_pos = decode_mouse_pos(lparam),
              !.constants.mouse = decode_mouse_pos(lparam),
              !.state.xfm_window_to_image.offset =
                  IF w.state.is_dragging
                  THEN float2_sub(w.state.drag_origin, decode_mouse_pos(lparam))
                  ELSE @,
              !.should_draw = TRUE]

on_WM_MOUSEMOVE(w, lparam) ==
    LET mouse_pos == decode_mouse_pos(lparam)
        drag_delta == float2_sub(w.state.drag_origin, mouse_pos)
    IN  [w EXCEPT !.state.mouse_pos = mouse_pos,
                  !.constants.mouse = mouse_pos,
                  !.state.xfm_window_to_image.offset =
                      IF w.state.is_dragging
                      THEN mul_element_wise(drag_delta, w.state.xfm_window_to_image.scale)
                      ELSE @,
                  !.should_draw = TRUE]

\* zoom keys that divide the scale there is
on_WM_KEYDOWN_relative(w, key) ==
    LET digit(d) == float2_new(f32_div(w.state.xfm_window_to_image.scale.x, f32_from_int(d)),
                               f32_div(w.state.xfm_window_to_image.scale.y, f32_from_int(d)))
        w1 == CASE key = "VK_ESCAPE" -> [w EXCEPT !.should_exit = TRUE]
                [] key = "VK_HOME" ->
                    LET window_dim == float2_from(w.main_window.window_dim)
                    IN  [w EXCEPT !.state.xfm_window_to_image =
                            Transform2D(FLOAT2_ONE,
                                float2_sub(float2_scale(F32_HALF, w.constants.image_dim),
                                           float2_scale(F32_HALF, window_dim)))]
                [] key = "VK_LEFT" /\ w.image_path.some -> switch_to_next_image(w, "Backward")
                [] key = "VK_RIGHT" /\ w.image_path.some -> switch_to_next_image(w, "Forward")
                [] key = "VK_RETURN" ->
                    LET r == set_full_screen(w.main_window, w.os, ~w.main_window.full_screen)
                    IN  [w EXCEPT !.main_window = r.self, !.os = r.os,
                                  !.forwarded = @ \o r.msgs]
                [] key = "1" -> [w EXCEPT !.state.xfm_window_to_image.scale = digit(1)]
                [] key = "2" -> [w EXCEPT !.state.xfm_window_to_image.scale = digit(2)]
                [] key = "3" -> [w EXCEPT !.state.xfm_window_to_image.scale = digit(4)]
                [] key = "4" -> [w EXCEPT !.state.xfm_window_to_image.scale = digit(8)]
                [] key = "5" -> [w EXCEPT !.state.xfm_window_to_image.scale = digit(16)]
                [] OTHER -> w
    IN  [w1 EXCEPT !.should_draw = TRUE]

\* a Home key that recentres at the scale there is
on_WM_KEYDOWN_home_keeps_scale(w, key) ==
    LET digit(d) == float2_new(f32_div(F32_ONE, f32_from_int(d)),
                               f32_div(F32_ONE, f32_from_int(d)))
        w1 == CASE key = "VK_ESCAPE" -> [w EXCEPT !.should_exit = TRUE]
                [] key = "VK_HOME" ->
                    LET window_dim == float2_from(w.main_window.window_dim)
                    IN  [w EXCEPT !.state.xfm_window_to_image =
                            Transform2D(w.state.xfm_window_to_image.scale,
                                float2_sub(float2_scale(F32_HALF, w.constants.image_dim),
                                           float2_scale(F32_HALF, window_dim)))]
                [] key = "VK_LEFT" /\ w.image_path.some -> switch_to_next_image(w, "Backward")
                [] key = "VK_RIGHT" /\ w.image_path.some -> switch_to_next_image(w, "Forward")
                [] key = "VK_RETURN" ->
                    LET r == set_full_screen(w.main_window, w.os, ~w.main_window.full_screen)
                    IN  [w EXCEPT !.main_window = r.self, !.os = r.os,
                                  !.forwarded = @ \o r.msgs]
                [] key = "1" -> [w EXCEPT !.state.xfm_window_to_image.scale = digit(1)]
                [] key = "2" -> [w EXCEPT !.state.xfm_window_to_image.scale = digit(2)]
                [] key = "3" -> [w EXCEPT !.state.xfm_window_to_image.scale = digit(4)]
                [] key = "4" -> [w EXCEPT !.state.xfm_window_to_image.scale = digit(8)]
                [] key = "5" -> [w EXCEPT !.state.xfm_window_to_image.scale = digit(16)]
                [] OTHER -> w
    IN  [w1 EXCEPT !.should_draw = TRUE]

on_WM_KEYDOWN(w, key) ==
    LET digit(d) == float2_new(f32_div(F32_ONE, f32_from_int(d)),
                               f32_div(F32_ONE, f32_from_int(d)))
        w1 == CASE key = "VK_ESCAPE" -> [w EXCEPT !.should_exit = TRUE]
                [] key = "VK_HOME" ->
                    LET window_dim == float2_from(w.main_window.window_dim)
                    IN  [w EXCEPT !.state.xfm_window_to_image =
                            Transform2D(FLOAT2_ONE,
                                float2_sub(float2_scale(F32_HALF, w.constants.image_dim),
                                           float2_scale(F32_HALF, window_dim)))]
                [] key = "VK_LEFT" /\ w.image_path.some -> switch_to_next_image(w, "Backward")
                [] key = "VK_RIGHT" /\ w.image_path.some -> switch_to_next_image(w, "Forward")
                [] key = "VK_RETURN" ->
                    LET r == set_full_screen(w.main_window, w.os, ~w.main_window.full_screen)
                    IN  [w EXCEPT !.main_window = r.self, !.os = r.os,
                                  !.forwarded = @ \o r.msgs]
                [] key = "1" -> [w EXCEPT !.state.xfm_window_to_image.scale = digit(1)]
                [] key = "2" -> [w EXCEPT !.state.xfm_window_to_image.scale = digit(2)]
                [] key = "3" -> [w EXCEPT !.state.xfm_window_to_image.scale = digit(4)]
                [] key = "4" -> [w EXCEPT !.state.xfm_window_to_image.scale = digit(8)]
                [] key = "5" -> [w EXCEPT !.state.xfm_window_to_image.scale = digit(16)]
                [] OTHER -> w
    IN  [w1 EXCEPT !.should_draw = TRUE]

\* a size message that moves the offset by the edge movement unscaled
on_WM_SIZE_unscaled(w, lparam) ==
    LET width == lparam[1]
        height == lparam[2]
        new_window_rect == get_window_rect_absolute(w.os)
        edge_delta == float2_from(<<new_window_rect.left - w.main_window.window_rect.left,
                                    new_window_rect.top - w.main_window.window_rect.top>>)
        g == update_backbuffer(w.graphics, get_window_client_rect_dimensions(w.os))
    IN  [w EXCEPT !.state.viewport_dim = float2_from(<<width, height>>),
                  !.main_window.window_dim = <<width, height>>,
                  !.state.xfm_window_to_image.offset =
                      IF float2_ne(edge_delta, FLOAT2_ZERO)
                      THEN float2_add(@, edge_delta)
                      ELSE @,
                  !.main_window.window_rect = new_window_rect,
                  !.graphics = g,
                  !.panicked = g.panicked,
                  !.should_draw = TRUE]

on_WM_SIZE(w, lparam) ==
    LET width == lparam[1]
        height == lparam[2]
        new_window_rect == get_window_rect_absolute(w.os)
        edge_delta == float2_from(<<new_window_rect.left - w.main_window.window_rect.left,
                                    new_window_rect.top - w.main_window.window_rect.top>>)
        g == update_backbuffer(w.graphics, get_window_client_rect_dimensions(w.os))
    IN  [w EXCEPT !.state.viewport_dim = float2_from(<<width, height>>),
                  !.main_window.window_dim = <<width, height>>,
                  !.state.xfm_window_to_image.offset =
                      IF float2_ne(edge_delta, FLOAT2_ZERO)
                      THEN float2_add(@, mul_element_wise(edge_delta,
                                                          w.state.xfm_window_to_image.scale))
                      ELSE @,
                  !.main_window.window_rect = new_window_rect,
                  !.graphics = g,
                  !.panicked = g.panicked,
                  !.should_draw = TRUE]

on_NativeMessage(w, native_msg) ==
    LET msg == native_msg.msg
        param == native_msg.param
    IN  CASE msg = "WM_PAINT" -> [w EXCEPT !.should_draw = TRUE]
          [] msg = "WM_MOUSEWHEEL" -> on_WM_MOUSEWHEEL(w, param)
          [] msg = "WM_LBUTTONDOWN" -> on_WM_LBUTTONDOWN(w)
          [] msg = "WM_LBUTTONUP" -> on_WM_LBUTTONUP(w)
          [] msg \in {"WM_XBUTTONDOWN", "WM_XBUTTONDBLCLK"} -> on_WM_XBUTTONDOWN(w, param)
          [] msg = "WM_XBUTTONUP" -> w
          [] msg = "WM_MOUSEMOVE" -> on_WM_MOUSEMOVE(w, param)
          [] msg = "WM_KEYDOWN" -> on_WM_KEYDOWN(w, param)
          [] msg = "WM_SIZE" -> on_WM_SIZE(w, param)
          [] msg = "WM_ENTERSIZEMOVE" -> [w EXCEPT !.state.is_resizing = TRUE]
          [] msg = "WM_EXITSIZEMOVE" ->
                [w EXCEPT !.should_draw = TRUE, !.state.is_resizing = FALSE]
          [] OTHER -> w

\* the match on the message received
on_message(w, x) ==
    CASE x.type = "OpenFile" ->
            [w EXCEPT !.image_path = Some(x.filename),
                      !.load_req_tx = Append(@, x.filename)]
      [] x.type = "WindowClosed" -> [w EXCEPT !.should_exit = TRUE]
      [] x.type = "NativeMessage" -> on_NativeMessage(w, x)
      [] OTHER -> [w EXCEPT !.panicked = TRUE]

\* applying a decode result that ignores a change of dimensions
apply_image_keep_transform(w, polled) ==
    IF polled.v.img.ok
    THEN LET texture == Texture_new(polled.v.img.v, polled.v.image_filename)
         IN  [w EXCEPT !.state.texture = Some(texture),
                       !.constants.image_dim = float2_from(texture.dim),
                       !.os = InvalidateRect(set_window_name(w.os, polled.v.image_filename))]
    ELSE [w EXCEPT !.os = InvalidateRect(@)]

\* applying a decode result that recentres whatever the dimensions
apply_image_always_recentre(w, polled) ==
    IF polled.v.img.ok
    THEN LET texture == Texture_new(polled.v.img.v, polled.v.image_filename)
             window_dim == float2_from(w.main_window.window_dim)
             image_dim == float2_from(texture.dim)
         IN  [w EXCEPT !.state.texture = Some(texture),
                       !.constants.image_dim = image_dim,
                       !.state.xfm_window_to_image =
                           Transform2D(FLOAT2_ONE,
                               float2_sub(float2_scale(F32_HALF, image_dim),
                                          float2_scale(F32_HALF, window_dim))),
                       !.os = InvalidateRect(set_window_name(w.os, polled.v.image_filename))]
    ELSE [w EXCEPT !.os = InvalidateRect(@)]

\* the window and the transform follow the new dimensions; r is what
\* set_image_size returned, or the window as it was when in full screen
resize_and_recentre(w, r, pending_image_dim) ==
    [w EXCEPT !.constants.image_dim = pending_image_dim,
              !.main_window = r.self,
              !.os = r.os,
              !.forwarded = @ \o r.msgs,
              !.state.xfm_window_to_image =
                  Transform2D(FLOAT2_ONE,
                      float2_sub(float2_scale(F32_HALF, pending_image_dim),
                                 float2_scale(F32_HALF, float2_from(r.self.window_dim))))]

\* the texture installed with the tracked dimensions left as they are
install_texture_keep_dim(w, texture) == [w EXCEPT !.state.texture = Some(texture)]

\* Image loaded: the texture, and the dimensions if they are new
install_texture(w, texture) ==
    IF float2_ne(w.constants.image_dim, float2_from(texture.dim))
    THEN resize_and_recentre(
             [w EXCEPT !.state.texture = Some(texture)],
             IF ~w.main_window.full_screen
             THEN set_image_size(w.main_window, w.os, texture.dim)
             ELSE [self |-> w.main_window, os |-> w.os, msgs |-> <<>>],
             float2_from(texture.dim))
    ELSE [w EXCEPT !.state.texture = Some(texture)]

\* applying a decode result that drops the displayed texture when the
\* decode failed
apply_image_on_failure(w, polled) ==
    IF polled.v.img.ok
    THEN [install_texture(w, Texture_new(polled.v.img.v, polled.v.image_filename))
             EXCEPT !.os = InvalidateRect(set_window_name(@, polled.v.image_filename))]
    ELSE [w EXCEPT !.state.texture = None, !.os = InvalidateRect(@)]

\* applying a decode result only if it is the result of the current path
apply_image_if_current(w, polled) ==
    IF polled.v.img.ok /\ w.image_path = Some(polled.v.image_filename)
    THEN [install_texture(w, Texture_new(polled.v.img.v, polled.v.image_filename))
             EXCEPT !.os = InvalidateRect(set_window_name(@, polled.v.image_filename))]
    ELSE [w EXCEPT !.os = InvalidateRect(@)]

\* applying a decode result without the InvalidateRect that follows it
apply_image_without_redraw(w, polled) ==
    IF polled.v.img.ok
    THEN [install_texture(w, Texture_new(polled.v.img.v, polled.v.image_filename))
             EXCEPT !.os = set_window_name(@, polled.v.image_filename)]
    ELSE w

\* what the body does with Ok(..) of image_rx.try_recv()
apply_image(w, polled) ==
    IF polled.v.img.ok
    THEN [install_texture(w, Texture_new(polled.v.img.v, polled.v.image_filename))
             EXCEPT !.os = InvalidateRect(set_window_name(@, polled.v.image_filename))]
    ELSE [w EXCEPT !.os = InvalidateRect(@)]

\* the constants of the frame, computed before the decode result is polled
update_constants(w) ==
    LET xfm_viewport_to_image_uv ==
            Transform2D(float2_rdiv(F32_ONE, w.constants.image_dim), FLOAT2_ZERO)
        xfm == w.state.xfm_window_to_image
        xfm_window_to_image_quantized ==
            IF f32_ge(xfm.scale.x, F32_ONE) \/ f32_ge(xfm.scale.y, F32_ONE)
            THEN Transform2D(xfm.scale, float2_round(xfm.offset))
            ELSE xfm
    IN  [w EXCEPT !.constants.window_dim = float2_from(w.main_window.window_dim),
                  !.constants.xfm_viewport_to_image_uv =
                      concatenate(xfm_window_to_image_quantized, xfm_viewport_to_image_uv)]

\* if let Ok(..) = image_rx.try_recv()
poll_image(w, polled) == IF polled.some THEN apply_image(w, polled) ELSE w

\* a draw that leaves should_draw as it was
draw_again(w) ==
    IF ~w.graphics.backbuffer.some THEN [w EXCEPT !.panicked = TRUE]
    ELSE [w EXCEPT
            !.graphics.presented =
                Some([constants |-> w.constants,
                      texture |-> w.state.texture,
                      rtv |-> w.graphics.backbuffer.v.rtv,
                      present_interval |-> IF w.state.is_dragging THEN 0 ELSE 1]),
            !.state.frame_number = @ + 1]

\* the draw: the constants are uploaded, the back buffer is bound and
\* cleared, the texture is drawn and the frame is presented
draw(w) ==
    IF ~w.graphics.backbuffer.some THEN [w EXCEPT !.panicked = TRUE]
    ELSE [w EXCEPT
            !.graphics.presented =
                Some([constants |-> w.constants,
                      texture |-> w.state.texture,
                      rtv |-> w.graphics.backbuffer.v.rtv,
                      present_interval |-> IF w.state.is_dragging THEN 0 ELSE 1]),
            !.state.frame_number = @ + 1,
            !.should_draw = FALSE]

\* the rest of the body after the `continue`
draw_frame(w, polled) == draw(poll_image(update_constants(w), polled))

(***************************************************************************)
(* Client-area sizes update_backbuffer is called with.                     *)
(***************************************************************************)
MaxBackbufferCalls == 3

ClientLengths == {0, 1, 500, 512, 513, 1024, 1025, 15872, 15873}

ClientDims == {<<w, h>> : w \in ClientLengths, h \in ClientLengths}

Sessions == {"viewing", "browsing", "arranging"}

VARIABLES
    call,           \* the function last applied on its own, with its arguments
    ret,            \* what it returned
    graphics,       \* GraphicsD3D11
    pc,             \* where the main thread is: "recv", "handle", "frame", "exit", "panic"
    x,              \* the result of process_window_messages
    polled,         \* the result of image_rx.try_recv() in the last frame
    state,          \* ViewerState
    main_window,    \* Window
    constants,      \* Constants
    image_path,     \* the current path
    should_draw,
    should_block,
    should_exit,
    message_rx,     \* the channel from the window thread
    load_req_rx,    \* the channel to the decode thread
    image_rx,       \* the channel from the decode thread
    os_window,      \* the window manager's side of the window
    loader,         \* where the decode thread is: "recv" or "invalidate"
    inputs,         \* the number of messages the user has caused so far
    session         \* what the user is doing in this run

mainVars ==
    <<pc, x, polled, state, main_window, constants, image_path, should_draw, should_block,
      should_exit, message_rx, load_req_rx, image_rx, os_window, loader, inputs, session>>

vars == <<call, ret, graphics, mainVars>>

\* a start that takes the path of the command line and requests no decode
InitMain_unsent(args, s) ==
    /\ pc = "recv"
    /\ x = None
    /\ polled = None
    /\ state = ViewerState_new
    /\ main_window = Window_new(INITIAL_WINDOW_DIM)
    /\ constants = Constants_new
    /\ image_path = args
    /\ should_draw = TRUE
    /\ should_block = TRUE
    /\ should_exit = FALSE
    /\ message_rx = <<>>
    /\ load_req_rx = <<>>
    /\ image_rx = <<>>
    /\ os_window = CreateWindow(INITIAL_WINDOW_DIM)
    /\ loader = "recv"
    /\ inputs = 0
    /\ session = s
    /\ graphics = GraphicsD3D11_new

\* a start with the WindowCreated message of the window left in the queue
InitMain_created_unconsumed(args, s) ==
    /\ pc = "recv"
    /\ x = None
    /\ polled = None
    /\ state = ViewerState_new
    /\ main_window = Window_new(INITIAL_WINDOW_DIM)
    /\ constants = Constants_new
    /\ image_path = args
    /\ should_draw = TRUE
    /\ should_block = TRUE
    /\ should_exit = FALSE
    /\ message_rx = window_proc("WM_CREATE", 0)
    /\ load_req_rx = IF args.some THEN <<args.v>> ELSE <<>>
    /\ image_rx = <<>>
    /\ os_window = CreateWindow(INITIAL_WINDOW_DIM)
    /\ loader = "recv"
    /\ inputs = 0
    /\ session = s
    /\ graphics = GraphicsD3D11_new

\* main() up to the render loop, started with the command-line arguments
\* args (the first argument, if there is one); s is what the user will do
InitMain(args, s) ==
    /\ pc = "recv"
    /\ x = None
    /\ polled = None
    /\ state = ViewerState_new
    /\ main_window = Window_new(INITIAL_WINDOW_DIM)
    /\ constants = Constants_new
    /\ image_path = args
    /\ should_draw = TRUE
    /\ should_block = TRUE
    /\ should_exit = FALSE
    /\ message_rx = <<>>
    /\ load_req_rx = IF args.some THEN <<args.v>> ELSE <<>>
    /\ image_rx = <<>>
    /\ os_window = CreateWindow(INITIAL_WINDOW_DIM)
    /\ loader = "recv"
    /\ inputs = 0
    /\ session = s
    /\ graphics = GraphicsD3D11_new

NoCall == [fn |-> "none"]
NoRet == [k |-> "none"]

(***************************************************************************)
(* The Transform2D functions applied to arbitrary arguments.               *)
(***************************************************************************)
MathCalls ==
    {[fn |-> "transform_point", self |-> t, v |-> v] : t \in Transforms, v \in Points}
        \cup {[fn |-> "transform_box", self |-> t, r |-> r] : t \in Transforms, r \in Boxes}
        \cup {[fn |-> "inverse", self |-> t] : t \in Transforms}
        \cup {[fn |-> "concatenate", self |-> a, other |-> b] :
                 a \in Transforms, b \in Transforms}

CallTransformPoint ==
    /\ call.fn = "transform_point"
    /\ ret = NoRet
    /\ ret' = transform_point(call.self, call.v)
    /\ UNCHANGED <<call, graphics, mainVars>>

CallTransformBox ==
    /\ call.fn = "transform_box"
    /\ ret = NoRet
    /\ ret' = transform_box(call.self, call.r)
    /\ UNCHANGED <<call, graphics, mainVars>>

CallInverse ==
    /\ call.fn = "inverse"
    /\ ret = NoRet
    /\ ret' = inverse(call.self)
    /\ UNCHANGED <<call, graphics, mainVars>>

CallConcatenate ==
    /\ call.fn = "concatenate"
    /\ ret = NoRet
    /\ ret' = concatenate(call.self, call.other)
    /\ UNCHANGED <<call, graphics, mainVars>>

InitMath == call \in MathCalls /\ ret = NoRet /\ InitMain(None, "viewing")

NextMath ==
    \/ CallTransformPoint
    \/ CallTransformBox
    \/ CallInverse
    \/ CallConcatenate

SpecMath == InitMath /\ [][NextMath]_vars


(***************************************************************************)
(* The browse.rs functions applied to arbitrary arguments.                 *)
(***************************************************************************)
CallIsCompatibleFile ==
    /\ call.fn = "is_compatible_file"
    /\ ret = NoRet
    /\ ret' = [b |-> is_compatible_file(call.path)]
    /\ UNCHANGED <<call, graphics, mainVars>>

CallGetNextFile ==
    /\ call.fn = "get_next_file"
    /\ ret = NoRet
    /\ ret' = get_next_file(call.dir, call.file_name, call.direction)
    /\ UNCHANGED <<call, graphics, mainVars>>

InitBrowse == call \in BrowseCalls /\ ret = NoRet /\ InitMain(None, "viewing")

NextBrowse == CallIsCompatibleFile \/ CallGetNextFile

SpecBrowse == InitBrowse /\ [][NextBrowse]_vars

(***************************************************************************)
(* update_backbuffer called again and again as the window changes size.    *)
(* call counts the calls made and holds the size of the last one.          *)
(***************************************************************************)
CallUpdateBackbuffer ==
    /\ ~graphics.panicked
    /\ call.n < MaxBackbufferCalls
    /\ \E client_dim \in ClientDims :
        /\ call' = [fn |-> "update_backbuffer", n |-> call.n + 1, client_dim |-> client_dim]
        /\ graphics' = update_backbuffer(graphics, client_dim)
    /\ UNCHANGED <<ret, mainVars>>

InitBackbuffer ==
    /\ call = [fn |-> "new", n |-> 0, client_dim |-> INITIAL_WINDOW_DIM]
    /\ ret = NoRet
    /\ InitMain(None, "viewing")

NextBackbuffer == CallUpdateBackbuffer

SpecBackbuffer == InitBackbuffer /\ [][NextBackbuffer]_vars

(***************************************************************************)
(* The program: the render loop of main() on the main thread, the window   *)
(* thread with its window procedure, the decode thread, and the user and   *)
(* the window manager around them.                                         *)
(***************************************************************************)
MaxInputs == 2

MousePositions == {<<100, 50>>, <<3, 7>>}

DroppedFiles == {Path("photos", E_PNG), Path("photos", D_GIF)}

\* what the user can make the window manager call the window procedure
\* with.  In one run the user is looking at an image, going through files,
\* or arranging the window.
UserMessages(s) ==
    CASE s = "viewing" ->
            {<<"WM_MOUSEWHEEL", d>> : d \in {120, -120}}
                \cup {<<"WM_MOUSEMOVE", p>> : p \in MousePositions}
                \cup {<<m, 0>> : m \in {"WM_LBUTTONDOWN", "WM_LBUTTONUP", "WM_SYSCHAR"}}
                \cup {<<"WM_KEYDOWN", k>> : k \in {"VK_HOME", "2", "A"}}
      [] s = "browsing" ->
            {<<"WM_KEYDOWN", k>> : k \in {"VK_LEFT", "VK_RIGHT"}}
                \cup {<<"WM_DROPFILES", f>> : f \in DroppedFiles}
                \cup {<<"WM_XBUTTONDOWN", 1>>, <<"WM_DESTROY", 0>>, <<"WM_MOUSEWHEEL", 120>>}
      [] s = "arranging" ->
            {<<"WM_KEYDOWN", k>> : k \in {"VK_RETURN", "VK_ESCAPE"}}
                \cup {<<m, 0>> : m \in {"WM_ENTERSIZEMOVE", "WM_EXITSIZEMOVE"}}

\* where the user can drag the window frame to: the bottom-right corner
\* out, or the top-left corner out
UserRects(rect) ==
    {RECT(rect.left, rect.top, rect.right + 600, rect.bottom + 20),
     RECT(rect.left - 40, rect.top - 30, rect.right, rect.bottom)}

CommandLines == {None, Some(Path("photos", A_PNG))}

Running == pc \notin {"exit", "panic"}

\* the locals of main() and what its calls reach, before a step of the body
World ==
    [state |-> state, main_window |-> main_window, constants |-> constants,
     image_path |-> image_path, should_draw |-> should_draw, should_exit |-> should_exit,
     graphics |-> graphics, os |-> os_window, load_req_tx |-> load_req_rx,
     forwarded |-> <<>>, panicked |-> FALSE]

\* ... and after it
Becomes(w) ==
    /\ state' = w.state
    /\ main_window' = w.main_window
    /\ constants' = w.constants
    /\ image_path' = w.image_path
    /\ should_draw' = w.should_draw
    /\ should_exit' = w.should_exit
    /\ graphics' = w.graphics
    /\ os_window' = w.os
    /\ load_req_rx' = w.load_req_tx

\* a receive that takes the newest message of the queue
MainRecv_newest ==
    /\ pc = "recv"
    /\ message_rx # <<>>
    /\ x' = Some(message_rx[Len(message_rx)])
    /\ message_rx' = SubSeq(message_rx, 1, Len(message_rx) - 1)
    /\ pc' = "handle"
    /\ UNCHANGED <<call, ret, graphics, polled, state, main_window, constants, image_path,
                   should_draw, should_block, should_exit, load_req_rx, image_rx,
                   os_window, loader, inputs, session>>

\* process_window_messages returns a message: recv() when should_block,
\* which waits for one, try_recv() otherwise
MainRecv ==
    /\ pc = "recv"
    /\ message_rx # <<>>
    /\ x' = Some(Head(message_rx))
    /\ message_rx' = Tail(message_rx)
    /\ pc' = "handle"
    /\ UNCHANGED <<call, ret, graphics, polled, state, main_window, constants, image_path,
                   should_draw, should_block, should_exit, load_req_rx, image_rx,
                   os_window, loader, inputs, session>>

\* a receive that finds no message and goes back to block, whatever there
\* is to draw
MainRecvNone_idle ==
    /\ pc = "recv"
    /\ ~should_block
    /\ message_rx = <<>>
    /\ x' = None
    /\ should_block' = TRUE
    /\ pc' = "recv"
    /\ UNCHANGED <<call, ret, graphics, polled, state, main_window, constants, image_path,
                   should_draw, should_exit, message_rx, load_req_rx, image_rx,
                   os_window, loader, inputs, session>>

\* a receive that finds no message and leaves should_block as it is
MainRecvNone_polling ==
    /\ pc = "recv"
    /\ ~should_block
    /\ message_rx = <<>>
    /\ x' = None
    /\ pc' = IF should_draw THEN "frame" ELSE "recv"
    /\ UNCHANGED <<call, ret, graphics, polled, state, main_window, constants, image_path,
                   should_draw, should_block, should_exit, message_rx, load_req_rx,
                   image_rx, os_window, loader, inputs, session>>

\* try_recv() finds no message: should_block is set, and the body goes on
\* to the frame unless there is nothing to draw
MainRecvNone ==
    /\ pc = "recv"
    /\ ~should_block
    /\ message_rx = <<>>
    /\ x' = None
    /\ should_block' = TRUE
    /\ pc' = IF should_draw THEN "frame" ELSE "recv"
    /\ UNCHANGED <<call, ret, graphics, polled, state, main_window, constants, image_path,
                   should_draw, should_exit, message_rx, load_req_rx, image_rx,
                   os_window, loader, inputs, session>>

\* the body has made w of the locals: the loop goes on, or ends
EndIteration(w) ==
    /\ Becomes(w)
    /\ message_rx' = message_rx \o w.forwarded
    /\ pc' = IF w.panicked THEN "panic"
             ELSE IF w.should_exit THEN "exit"
             ELSE "recv"

\* the match on the message received; should_block is now false, so the
\* body continues with the next iteration, or leaves the loop
MainHandle ==
    /\ pc = "handle"
    /\ EndIteration(on_message(World, x.v))
    /\ should_block' = FALSE
    /\ x' = None
    /\ UNCHANGED <<call, ret, polled, image_rx, loader, inputs, session>>

\* the frame: constants, image_rx.try_recv(), draw, present
MainFrame ==
    /\ pc = "frame"
    /\ polled' = IF image_rx # <<>> THEN Some(Head(image_rx)) ELSE None
    /\ image_rx' = IF image_rx # <<>> THEN Tail(image_rx) ELSE image_rx
    /\ EndIteration(draw_frame(World, polled'))
    /\ UNCHANGED <<call, ret, x, should_block, loader, inputs, session>>

\* a decode thread that sends nothing when the decode fails
LoaderDecode_drop_failed ==
    /\ Running
    /\ loader = "recv"
    /\ load_req_rx # <<>>
    /\ LET path == Head(load_req_rx)
       IN  image_rx' = IF image_open(path).ok
                       THEN Append(image_rx, [img |-> image_open(path), image_filename |-> path])
                       ELSE image_rx
    /\ load_req_rx' = Tail(load_req_rx)
    /\ loader' = "invalidate"
    /\ UNCHANGED <<call, ret, graphics, pc, x, polled, state, main_window, constants,
                   image_path, should_draw, should_block, should_exit, message_rx,
                   os_window, inputs, session>>

\* a decode thread that takes the newest request first
LoaderDecode_newest ==
    /\ Running
    /\ loader = "recv"
    /\ load_req_rx # <<>>
    /\ LET path == load_req_rx[Len(load_req_rx)]
       IN  image_rx' = Append(image_rx, [img |-> image_open(path), image_filename |-> path])
    /\ load_req_rx' = SubSeq(load_req_rx, 1, Len(load_req_rx) - 1)
    /\ loader' = "invalidate"
    /\ UNCHANGED <<call, ret, graphics, pc, x, polled, state, main_window, constants,
                   image_path, should_draw, should_block, should_exit, message_rx,
                   os_window, inputs, session>>

\* the decode thread: load_req_rx.recv(), image::open, image_tx.send
LoaderDecode ==
    /\ Running
    /\ loader = "recv"
    /\ load_req_rx # <<>>
    /\ LET path == Head(load_req_rx)
       IN  image_rx' = Append(image_rx, [img |-> image_open(path), image_filename |-> path])
    /\ load_req_rx' = Tail(load_req_rx)
    /\ loader' = "invalidate"
    /\ UNCHANGED <<call, ret, graphics, pc, x, polled, state, main_window, constants,
                   image_path, should_draw, should_block, should_exit, message_rx,
                   os_window, inputs, session>>

\* ... and its InvalidateRect
LoaderInvalidate ==
    /\ Running
    /\ loader = "invalidate"
    /\ os_window' = InvalidateRect(os_window)
    /\ loader' = "recv"
    /\ UNCHANGED <<call, ret, graphics, pc, x, polled, state, main_window, constants,
                   image_path, should_draw, should_block, should_exit, message_rx,
                   load_req_rx, image_rx, inputs, session>>

\* the window thread dispatches a message the user caused.  The body of the
\* loop does not read the queue, so a message sent while the body runs is
\* one sent before the next receive.
UserInput ==
    /\ Running
    /\ pc = "recv"
    /\ ~os_window.destroyed
    /\ inputs < MaxInputs
    /\ \E m \in UserMessages(session) :
        /\ message_rx' = message_rx \o window_proc(m[1], m[2])
        /\ os_window' = IF m[1] = "WM_DESTROY" THEN [os_window EXCEPT !.destroyed = TRUE]
                        ELSE IF m[1] = "WM_PAINT" THEN [os_window EXCEPT !.invalid = FALSE]
                        ELSE os_window
    /\ inputs' = inputs + 1
    /\ UNCHANGED <<call, ret, graphics, pc, x, polled, state, main_window, constants,
                   image_path, should_draw, should_block, should_exit, load_req_rx,
                   image_rx, loader, session>>

\* the user drags the window frame
UserResize ==
    /\ Running
    /\ ~os_window.destroyed
    /\ ~os_window.popup
    /\ session = "arranging"
    /\ inputs < MaxInputs
    /\ \E rect \in UserRects(os_window.rect) :
        LET os2 == [os_window EXCEPT !.rect = rect, !.maximized = FALSE]
        IN  /\ os_window' = os2
            /\ message_rx' = message_rx \o WindowPosMessages(os_window, os2)
    /\ inputs' = inputs + 1
    /\ UNCHANGED <<call, ret, graphics, pc, x, polled, state, main_window, constants,
                   image_path, should_draw, should_block, should_exit, load_req_rx,
                   image_rx, loader, session>>

\* the window manager has the invalidated window painted: the window
\* procedure forwards WM_PAINT and DefWindowProcW validates the window
PaintMessage ==
    /\ Running
    /\ ~os_window.destroyed
    /\ os_window.invalid
    /\ message_rx' = message_rx \o window_proc("WM_PAINT", 0)
    /\ os_window' = [os_window EXCEPT !.invalid = FALSE]
    /\ UNCHANGED <<call, ret, graphics, pc, x, polled, state, main_window, constants,
                   image_path, should_draw, should_block, should_exit, load_req_rx,
                   image_rx, loader, inputs, session>>

Init ==
    /\ call = NoCall
    /\ ret = NoRet
    /\ \E args \in CommandLines, s \in Sessions : InitMain(args, s)

Next ==
    \/ MainRecv
    \/ MainRecvNone
    \/ MainHandle
    \/ MainFrame
    \/ LoaderDecode
    \/ LoaderInvalidate
    \/ UserInput
    \/ UserResize
    \/ PaintMessage

Spec == Init /\ [][Next]_vars

(***************************************************************************)
(* The viewer under a drag: the message match of the render loop applied   *)
(* to zoom input, pointer-down, pointer moves and pointer-up, one message  *)
(* after another.  call.grabbed is the image point that was under the      *)
(* cursor at pointer-down, while the drag lasts and the scale is the one   *)
(* of pointer-down.                                                        *)
(***************************************************************************)
MaxDragInputs == 4

DragPositions == {<<100, 50>>, <<3, 7>>, <<641, 333>>}

DragZooms ==
    {NativeMessage("WM_MOUSEWHEEL", 120), NativeMessage("WM_MOUSEWHEEL", 0 - 120),
     NativeMessage("WM_KEYDOWN", "3")}

DragApply(msg, grabbed) ==
    /\ call.fn = "drag"
    /\ inputs < MaxDragInputs
    /\ Becomes(on_message(World, msg))
    /\ call' = [fn |-> "drag", grabbed |-> grabbed]
    /\ inputs' = inputs + 1
    /\ UNCHANGED <<ret, pc, x, polled, should_block, message_rx, image_rx, loader, session>>

DragZoom == \E msg \in DragZooms : DragApply(msg, None)

DragPointerDown ==
    DragApply(NativeMessage("WM_LBUTTONDOWN", 0),
              Some(transform_point(state.xfm_window_to_image, state.mouse_pos)))

DragMove == \E p \in DragPositions : DragApply(NativeMessage("WM_MOUSEMOVE", p), call.grabbed)

DragPointerUp == DragApply(NativeMessage("WM_LBUTTONUP", 0), None)

InitDrag ==
    /\ call = [fn |-> "drag", grabbed |-> None]
    /\ ret = NoRet
    /\ InitMain(None, "viewing")

NextDrag == DragZoom \/ DragPointerDown \/ DragMove \/ DragPointerUp

SpecDrag == InitDrag /\ [][NextDrag]_vars

(***************************************************************************)
(* The program while the user goes through files, with the threads         *)
(* scheduled fairly: the render loop takes a step when it can, the decode  *)
(* thread too, and the window manager has an invalidated window painted.   *)
(* The user sends messages or not, as before.                              *)
(***************************************************************************)
MainReceive == MainRecv \/ MainRecvNone

LoaderThread == LoaderDecode \/ LoaderInvalidate

MaxLoadInputs == 2

\* the user steps to the next file, drops a damaged file, or closes the
\* window
LoadMessages ==
    {<<"WM_KEYDOWN", "VK_RIGHT">>, <<"WM_DROPFILES", Path("photos", D_GIF)>>,
     <<"WM_DESTROY", 0>>}

LoadsInput ==
    /\ Running
    /\ pc = "recv"
    /\ ~os_window.destroyed
    /\ inputs < MaxLoadInputs
    /\ \E m \in LoadMessages :
        /\ message_rx' = message_rx \o window_proc(m[1], m[2])
        /\ os_window' = IF m[1] = "WM_DESTROY" THEN [os_window EXCEPT !.destroyed = TRUE]
                        ELSE os_window
    /\ inputs' = inputs + 1
    /\ UNCHANGED <<call, ret, graphics, pc, x, polled, state, main_window, constants,
                   image_path, should_draw, should_block, should_exit, load_req_rx,
                   image_rx, loader, session>>

InitLoads ==
    /\ call = NoCall
    /\ ret = NoRet
    /\ InitMain(Some(Path("photos", A_PNG)), "browsing")

NextLoads ==
    \/ MainRecv
    \/ MainRecvNone
    \/ MainHandle
    \/ MainFrame
    \/ LoaderDecode
    \/ LoaderInvalidate
    \/ LoadsInput
    \/ PaintMessage

\* The match and the frame can always be done and are what takes the loop
\* on from "handle" and from "frame": weak fairness of them is that the
\* loop does not stay there.
SpecLoads ==
    /\ InitLoads
    /\ [][NextLoads]_vars
    /\ WF_vars(MainReceive)
    /\ []<>(pc # "handle")
    /\ []<>(pc # "frame")
    /\ WF_vars(LoaderThread)
    /\ WF_vars(PaintMessage)

(***************************************************************************)
(* The viewer under a long run of zoom input: the message match of the     *)
(* render loop applied to wheel steps, zoom keys and pointer-down, one     *)
(* message after another.  Zooming out ends by itself, where f32 rounding  *)
(* returns the scale it was given; inputs counts the wheel steps inwards.  *)
(***************************************************************************)
MaxZoomIn == 1

ZoomKeys == {"1", "2", "3", "4", "5"}

ZoomApply(msg) ==
    /\ call.fn = "zoom"
    /\ Becomes(on_message(World, msg))
    /\ UNCHANGED <<call, ret, pc, x, polled, should_block, message_rx, image_rx, loader,
                   session>>

ZoomOut ==
    /\ ZoomApply(NativeMessage("WM_MOUSEWHEEL", 120))
    /\ UNCHANGED inputs

ZoomIn ==
    /\ inputs < MaxZoomIn
    /\ ZoomApply(NativeMessage("WM_MOUSEWHEEL", 0 - 120))
    /\ inputs' = inputs + 1

ZoomKey ==
    /\ \E key \in ZoomKeys : ZoomApply(NativeMessage("WM_KEYDOWN", key))
    /\ UNCHANGED inputs

ZoomPointerDown ==
    /\ ZoomApply(NativeMessage("WM_LBUTTONDOWN", 0))
    /\ UNCHANGED inputs

InitZoom ==
    /\ call = [fn |-> "zoom"]
    /\ ret = NoRet
    /\ InitMain(None, "viewing")

NextZoom == ZoomOut \/ ZoomIn \/ ZoomKey \/ ZoomPointerDown

SpecZoom == InitZoom /\ [][NextZoom]_vars

(***************************************************************************)
(* The viewer under a short run of input, one whole iteration of the loop  *)
(* at a time: a message of the user is received and handled, the user      *)
(* drags the window frame and the size message is handled, or the decode   *)
(* thread finishes a request and the next frame applies the result and the *)
(* messages its calls bring are handled.  call.msg is the message of the   *)
(* last step, if it was one.                                               *)
(***************************************************************************)
MaxViewInputs == 3

\* files the user drops on the window: the last image of the directory,
\* a file that is no image, and an image of a directory that cannot be read
ViewDrops == {Path("photos", E_PNG), Path("photos", C_TXT), Path("camera", A_PNG)}

ViewMessages ==
    {<<"WM_MOUSEWHEEL", d>> : d \in {120, -120}}
        \cup {<<"WM_MOUSEMOVE", p>> : p \in MousePositions}
        \cup {<<m, 0>> : m \in {"WM_LBUTTONDOWN", "WM_LBUTTONUP"}}
        \cup {<<"WM_KEYDOWN", k>> : k \in ZoomKeys \cup {"VK_HOME", "VK_LEFT", "VK_RIGHT"}}
        \cup {<<"WM_XBUTTONDOWN", b>> : b \in {1, 2}}
        \cup {<<"WM_DROPFILES", f>> : f \in ViewDrops}

\* the loop receives and handles the messages msgs one after another,
\* and after them those that handling them brings
RECURSIVE HandleAll(_, _)
HandleRest(w1, msgs) == HandleAll(w1, msgs \o w1.forwarded)

HandleAll(w, msgs) ==
    IF msgs = <<>> THEN w
    ELSE HandleRest(on_message([w EXCEPT !.forwarded = <<>>], Head(msgs)), Tail(msgs))

ViewStep(w, msg) ==
    /\ call.fn = "view"
    /\ Becomes(w)
    /\ call' = [fn |-> "view", msg |-> msg]
    /\ UNCHANGED <<ret, pc, x, polled, should_block, message_rx, image_rx, loader, session>>

ViewInput ==
    /\ inputs < MaxViewInputs
    /\ \E m \in ViewMessages :
        ViewStep(HandleAll(World, window_proc(m[1], m[2])), Some(m))
    /\ inputs' = inputs + 1

\* the window manager has given the window the rectangle of os2
ViewResized(os2) ==
    ViewStep(HandleAll([World EXCEPT !.os = os2], WindowPosMessages(os_window, os2)),
             Some(<<"WM_SIZE", dim(GetClientRect(os2))>>))

ViewResize ==
    /\ inputs < MaxViewInputs
    /\ ~os_window.popup
    /\ \E rect \in UserRects(os_window.rect) :
        ViewResized([os_window EXCEPT !.rect = rect, !.maximized = FALSE])
    /\ inputs' = inputs + 1

\* the frame has made w of the locals
ViewFramed(w) == ViewStep(HandleAll(w, w.forwarded), None)

ViewLoad ==
    /\ load_req_rx # <<>>
    /\ ViewFramed(draw_frame([World EXCEPT !.load_req_tx = Tail(load_req_rx)],
                             Some([img |-> image_open(Head(load_req_rx)),
                                   image_filename |-> Head(load_req_rx)])))
    /\ UNCHANGED inputs

InitView ==
    /\ call = [fn |-> "view", msg |-> None]
    /\ ret = NoRet
    /\ \E args \in CommandLines : InitMain(args, "viewing")

NextView == ViewInput \/ ViewResize \/ ViewLoad

SpecView == InitView /\ [][NextView]_vars

(***************************************************************************)
(* write_bitmap_to_clipboard, step by step.  call holds the locals of the  *)
(* function and where it is, and counts what it has asked of the           *)
(* clipboard; whether the clipboard opens, clears and takes the data is up *)
(* to the system and the other processes that use it.                      *)
(***************************************************************************)
CLIPBOARD_OPEN_RETRIES == 50
CLIPBOARD_RETRY_DELAY_MS == 10

\* anyhow!(msg) as the Err of a Result
anyhow(msg) == [ok |-> FALSE, msg |-> msg]

clipboard_returns(c, result) ==
    /\ call' = [c EXCEPT !.at = "done"]
    /\ ret' = result

\* an open that never gives up
ClipboardOpen_forever ==
    /\ call.fn = "write_bitmap_to_clipboard"
    /\ call.at = "open"
    /\ \E opened \in BOOLEAN :
        LET c == [call EXCEPT !.opens = @ + 1]
        IN  IF opened
            THEN call' = [c EXCEPT !.at = "empty", !.holds = TRUE] /\ ret' = ret
            ELSE call' = [c EXCEPT !.attempts = @ - 1, !.at = "sleep"] /\ ret' = ret
    /\ UNCHANGED <<graphics, mainVars>>

\* Clipboard::new_for(hwnd), and the Err arm of the match
ClipboardOpen ==
    /\ call.fn = "write_bitmap_to_clipboard"
    /\ call.at = "open"
    /\ \E opened \in BOOLEAN :
        LET c == [call EXCEPT !.opens = @ + 1]
        IN  IF opened
            THEN call' = [c EXCEPT !.at = "empty", !.holds = TRUE] /\ ret' = ret
            ELSE IF c.attempts = 0
            THEN clipboard_returns(c, anyhow("Failed to open clipboard"))
            ELSE call' = [c EXCEPT !.attempts = @ - 1, !.at = "sleep"] /\ ret' = ret
    /\ UNCHANGED <<graphics, mainVars>>

\* std::thread::sleep(Duration::from_millis(10)), then round the loop
ClipboardSleep ==
    /\ call.fn = "write_bitmap_to_clipboard"
    /\ call.at = "sleep"
    /\ call' = [call EXCEPT !.slept_ms = @ + CLIPBOARD_RETRY_DELAY_MS, !.at = "open"]
    /\ UNCHANGED <<ret, graphics, mainVars>>

\* clipboard_win::raw::empty()
ClipboardEmpty ==
    /\ call.fn = "write_bitmap_to_clipboard"
    /\ call.at = "empty"
    /\ \E ok \in BOOLEAN :
        LET c == [call EXCEPT !.empties = @ + 1]
        IN  IF ok THEN call' = [c EXCEPT !.at = "set_bitmap"] /\ ret' = ret
            ELSE clipboard_returns([c EXCEPT !.holds = FALSE],
                                   anyhow("Failed to clear clipboard"))
    /\ UNCHANGED <<graphics, mainVars>>

\* clipboard_win::raw::set_bitmap(bmp_data)
ClipboardSetBitmap ==
    /\ call.fn = "write_bitmap_to_clipboard"
    /\ call.at = "set_bitmap"
    /\ \E ok \in BOOLEAN :
        LET c == [call EXCEPT !.sets = @ + 1]
        IN  IF ok THEN call' = [c EXCEPT !.at = "set_dib"] /\ ret' = ret
            ELSE clipboard_returns([c EXCEPT !.holds = FALSE],
                                   anyhow("Failed to set CF_BITMAP"))
    /\ UNCHANGED <<graphics, mainVars>>

\* clipboard_win::raw::set_without_clear(CF_DIB, dib_data), and return Ok(())
ClipboardSetDib ==
    /\ call.fn = "write_bitmap_to_clipboard"
    /\ call.at = "set_dib"
    /\ \E ok \in BOOLEAN :
        LET c == [call EXCEPT !.sets = @ + 1, !.holds = FALSE]
        IN  clipboard_returns(c, IF ok THEN Ok(<<>>) ELSE anyhow("Failed to set CF_DIB"))
    /\ UNCHANGED <<graphics, mainVars>>

InitClipboard ==
    /\ call = [fn |-> "write_bitmap_to_clipboard", at |-> "open",
               attempts |-> CLIPBOARD_OPEN_RETRIES, opens |-> 0, slept_ms |-> 0,
               empties |-> 0, sets |-> 0, holds |-> FALSE]
    /\ ret = NoRet
    /\ InitMain(None, "viewing")

NextClipboard ==
    \/ ClipboardOpen
    \/ ClipboardSleep
    \/ ClipboardEmpty
    \/ ClipboardSetBitmap
    \/ ClipboardSetDib

\* the thread that runs the function keeps running, and sleep and the
\* clipboard calls return
SpecClipboard == InitClipboard /\ [][NextClipboard]_vars /\ WF_vars(NextClipboard)

(***************************************************************************)
(* Reading the clipboard.  The clipboard holds, for each format, nothing   *)
(* (the format is not available) or what get_clipboard returns for it: an  *)
(* error, or the data.  A text is a sequence of characters; a path is the  *)
(* text that names it.  Image data is given by what image::load_from_memory*)
(* makes of it; DIB data also by its length and the header fields that     *)
(* dib_to_bmp reads.                                                       *)
(***************************************************************************)
BMP_FILE_HEADER_SIZE == 14
BITMAPINFOHEADER_SIZE == 40

MaxTextLen == 3

TextChars == {" ", "\n", "\"", "a", "z"}

Texts == UNION {[1..n -> TextChars] : n \in 0..MaxTextLen}

\* Path::exists: one file is there
path_exists(path) == path = <<"a">>

is_whitespace(c) == c \in {" ", "\n"}

\* str::trim_start_matches and str::trim_end_matches for the characters cs
RECURSIVE trim_start_matches(_, _)
trim_start_matches(s, cs) ==
    IF s # <<>> /\ Head(s) \in cs THEN trim_start_matches(Tail(s), cs) ELSE s

RECURSIVE trim_end_matches(_, _)
trim_end_matches(s, cs) ==
    IF s # <<>> /\ s[Len(s)] \in cs
    THEN trim_end_matches(SubSeq(s, 1, Len(s) - 1), cs)
    ELSE s

trim_matches(s, cs) == trim_end_matches(trim_start_matches(s, cs), cs)

\* str::trim
trim(s) == trim_matches(s, {" ", "\n"})

\* text.lines().next().unwrap_or("")
RECURSIVE first_line(_)
first_line(s) ==
    IF s = <<>> \/ Head(s) = "\n" THEN <<>> ELSE <<Head(s)>> \o first_line(Tail(s))

\* image::load_from_memory
load_from_memory(data) == data.image

DibData(len, header_size, bit_count, clr_used, image) ==
    [len |-> len, header_size |-> header_size, bit_count |-> bit_count,
     clr_used |-> clr_used, image |-> image]

\* the BMP file made of DIB data: the two size fields of the file header,
\* and the data behind it.  The sizes here are far below 2^32, where the
\* casts to u32 would cut them.
dib_to_bmp(dib_data) ==
    IF dib_data.len < BITMAPINFOHEADER_SIZE THEN anyhow("DIB data too small")
    ELSE IF dib_data.header_size < BITMAPINFOHEADER_SIZE
               \/ dib_data.len < dib_data.header_size
    THEN anyhow("Unsupported DIB header")
    ELSE LET color_count == IF dib_data.clr_used # 0 THEN dib_data.clr_used
                            ELSE IF dib_data.bit_count <= 8 THEN 2 ^ dib_data.bit_count
                            ELSE 0
         IN  Ok([bf_size |-> BMP_FILE_HEADER_SIZE + dib_data.len,
                 bf_off_bits |-> BMP_FILE_HEADER_SIZE + dib_data.header_size
                                     + color_count * 4,
                 image |-> dib_data.image])

\* the path the text of the clipboard names, if it names a file
path_of_text(text) ==
    IF text = <<>> THEN Ok(None)
    ELSE IF trim_matches(trim(first_line(text)), {"\""}) = <<>> THEN Ok(None)
    ELSE IF path_exists(trim_matches(trim(first_line(text)), {"\""}))
    THEN Ok(Some(trim_matches(trim(first_line(text)), {"\""})))
    ELSE Ok(None)

get_clipboard_file_path(clip) ==
    IF ~clip.file_list.some
    THEN IF ~clip.unicode.some THEN Ok(None)
         ELSE IF ~clip.unicode.v.ok THEN Ok(None)
         ELSE path_of_text(trim(clip.unicode.v.v))
    ELSE IF ~clip.file_list.v.ok THEN Ok(None)
    ELSE Ok(IF clip.file_list.v.v = <<>> THEN None ELSE Some(Head(clip.file_list.v.v)))

\* the image of the DIB data of the clipboard
image_of_dib(bmp_data) ==
    IF ~bmp_data.ok THEN bmp_data
    ELSE IF load_from_memory(bmp_data.v).ok THEN Ok(Some(load_from_memory(bmp_data.v).v))
    ELSE Ok(None)

\* get_clipboard_image taking DIB data it cannot convert as no image
get_clipboard_image_lenient(clip) ==
    IF clip.bitmap.some /\ clip.bitmap.v.ok /\ load_from_memory(clip.bitmap.v.v).ok
    THEN Ok(Some(load_from_memory(clip.bitmap.v.v).v))
    ELSE IF clip.dib.some /\ clip.dib.v.ok /\ dib_to_bmp(clip.dib.v.v).ok
    THEN image_of_dib(dib_to_bmp(clip.dib.v.v))
    ELSE Ok(None)

get_clipboard_image(clip) ==
    IF clip.bitmap.some /\ clip.bitmap.v.ok /\ load_from_memory(clip.bitmap.v.v).ok
    THEN Ok(Some(load_from_memory(clip.bitmap.v.v).v))
    ELSE IF clip.dib.some /\ clip.dib.v.ok THEN image_of_dib(dib_to_bmp(clip.dib.v.v))
    ELSE Ok(None)

\* what a format of the clipboard can hold, given the data it can hold
Held(datas) == {None, Some(Err)} \cup {Some(Ok(d)) : d \in datas}

FileLists == {<<>>, <<<<"z">>>>, <<<<"a">>, <<"z">>>>}

Images == {Err, Ok(<<640, 480>>)}

\* DIB data too short for a header, with a header that is too small or
\* longer than the data, and with a header it holds
DibDatas ==
    {DibData(len, 0, 0, 0, Err) : len \in {0, 39}}
        \cup {DibData(len, header_size, bit_count, clr_used, image) :
                 len \in {40, 52, 1064}, header_size \in {12, 40, 124},
                 bit_count \in {8, 24}, clr_used \in {0, 2}, image \in Images}

ClipboardReads ==
    {[fn |-> "get_clipboard_file_path",
      clip |-> [file_list |-> f, unicode |-> u, bitmap |-> None, dib |-> None]] :
         f \in Held(FileLists), u \in Held(Texts)}
        \cup {[fn |-> "get_clipboard_image",
               clip |-> [file_list |-> None, unicode |-> None, bitmap |-> b, dib |-> d]] :
                  b \in Held({[image |-> i] : i \in Images}), d \in Held(DibDatas)}

CallGetClipboardFilePath ==
    /\ call.fn = "get_clipboard_file_path"
    /\ ret = NoRet
    /\ ret' = get_clipboard_file_path(call.clip)
    /\ UNCHANGED <<call, graphics, mainVars>>

CallGetClipboardImage ==
    /\ call.fn = "get_clipboard_image"
    /\ ret = NoRet
    /\ ret' = get_clipboard_image(call.clip)
    /\ UNCHANGED <<call, graphics, mainVars>>

InitClipboardRead == call \in ClipboardReads /\ ret = NoRet /\ InitMain(None, "viewing")

NextClipboardRead == CallGetClipboardFilePath \/ CallGetClipboardImage

SpecClipboardRead == InitClipboardRead /\ [][NextClipboardRead]_vars

(***************************************************************************)
(* Comparing f32 results.                                                  *)
(***************************************************************************)
f32_max(a, b) == IF f32_ge(a, b) THEN a ELSE b

\* 2^-19: thirty-two units of f32 roundoff (2^-24)
F32_TOL == f32_fin(0, Pow2(F32_MANT_BITS - 1), -42)

\* |a - b| <= 2^-19 * bound
f32_close(a, b, bound) ==
    f32_ge(f32_mul(f32_abs(bound), F32_TOL), f32_abs(f32_sub(a, b)))

NonzeroScale(t) == ~IsZero(t.scale.x) /\ ~IsZero(t.scale.y)

\* C9 as claimed: the round trip through inverse() returns p exactly
C9_RoundTripExact ==
    (call.fn = "inverse" /\ ret # NoRet /\ NonzeroScale(call.self)) =>
        \A p \in Points :
            float2_eq(transform_point(ret, transform_point(call.self, p)), p)

\* C9: for a transform t of nonzero scale, inverse() is {1/scale,
\* -offset/scale} and t.inverse().transform_point(t.transform_point(p))
\* returns p up to f32 rounding: each component within 2^-19 of the larger
\* of |p| and |inverse offset|.
C9_RoundTrip ==
    (call.fn = "inverse" /\ ret # NoRet /\ NonzeroScale(call.self)) =>
        /\ ret.scale = float2_rdiv(F32_ONE, call.self.scale)
        /\ ret.offset = float2_neg(div_element_wise(call.self.offset, call.self.scale))
        /\ \A p \in Points :
            LET q == transform_point(ret, transform_point(call.self, p))
            IN  /\ f32_close(q.x, p.x, f32_max(f32_abs(p.x), f32_abs(ret.offset.x)))
                /\ f32_close(q.y, p.y, f32_max(f32_abs(p.y), f32_abs(ret.offset.y)))

\* inverse() applied to a transform of nonzero scale whose round trip of
\* some point is off by rounding
C9_Witness ==
    /\ call.fn = "inverse"
    /\ ret # NoRet
    /\ NonzeroScale(call.self)
    /\ \E p \in Points :
        ~float2_eq(transform_point(ret, transform_point(call.self, p)), p)

\* C10 as claimed: concatenation composes exactly
C10_ConcatExact ==
    (call.fn = "concatenate" /\ ret # NoRet) =>
        \A p \in Points :
            float2_eq(transform_point(ret, p),
                      transform_point(call.other, transform_point(call.self, p)))

\* C10: a.concatenate(b) has scale a.scale*b.scale and offset
\* a.offset*b.scale + b.offset elementwise, and maps p to
\* b.transform_point(a.transform_point(p)) up to f32 rounding: each
\* component within 2^-19 of the largest of |p*scale|, |a.offset*b.scale|
\* and |b.offset|.
C10_Concat ==
    (call.fn = "concatenate" /\ ret # NoRet) =>
        LET a == call.self
            b == call.other
        IN  /\ ret.scale.x = f32_mul(a.scale.x, b.scale.x)
            /\ ret.scale.y = f32_mul(a.scale.y, b.scale.y)
            /\ ret.offset.x = f32_add(f32_mul(a.offset.x, b.scale.x), b.offset.x)
            /\ ret.offset.y = f32_add(f32_mul(a.offset.y, b.scale.y), b.offset.y)
            /\ \A p \in Points :
                LET l == transform_point(ret, p)
                    r == transform_point(b, transform_point(a, p))
                    bx == f32_max(f32_abs(f32_mul(p.x, ret.scale.x)),
                                  f32_max(f32_abs(f32_mul(a.offset.x, b.scale.x)),
                                          f32_abs(b.offset.x)))
                    by == f32_max(f32_abs(f32_mul(p.y, ret.scale.y)),
                                  f32_max(f32_abs(f32_mul(a.offset.y, b.scale.y)),
                                          f32_abs(b.offset.y)))
                IN  f32_close(l.x, r.x, bx) /\ f32_close(l.y, r.y, by)

\* concatenate() applied where the two sides differ by rounding
C10_Witness ==
    /\ call.fn = "concatenate"
    /\ ret # NoRet
    /\ \E p \in Points :
        ~float2_eq(transform_point(ret, p),
                   transform_point(call.other, transform_point(call.self, p)))

(***************************************************************************)
(* Navigation claims.                                                      *)
(***************************************************************************)
Range(f) == {f[i] : i \in DOMAIN f}

\* the extensions the specification lists
ListedExtensions ==
    { <<"j", "p", "g">>, <<"j", "p", "e", "g">>, <<"p", "n", "g">>,
      <<"g", "i", "f">>, <<"w", "e", "b", "p">>, <<"t", "i", "f">>,
      <<"t", "i", "f", "f">>, <<"t", "g", "a">>, <<"d", "d", "s">>,
      <<"b", "m", "p">>, <<"i", "c", "o">>, <<"h", "d", "r">>,
      <<"p", "b", "m">>, <<"p", "a", "m">>, <<"p", "p", "m">>,
      <<"p", "g", "m">>, <<"f", "f">> }

SameIgnoringCase(v, w) ==
    /\ Len(v) = Len(w)
    /\ \A i \in 1..Len(v) : to_ascii_lowercase_char(v[i]) = to_ascii_lowercase_char(w[i])

HasListedExtension(name) ==
    /\ extension(name).some
    /\ \E e \in ListedExtensions : SameIgnoringCase(extension(name).v, e)

\* where name stands in the enumeration
EntryIndex(entries, name) == CHOOSE i \in 1..Len(entries) : entries[i].name = name

\* C7: with L the filtered listing in enumeration order and the current
\* file at index i of L, get_next_file returns L[i+1] for Forward unless i
\* is the last index, L[i-1] for Backward unless i is the first, and None
\* otherwise: past either end, current file not in L, unreadable directory.
C7_StepByOne ==
    (call.fn = "get_next_file" /\ ret # NoRet) =>
        IF ~call.dir.readable THEN ret = None
        ELSE LET L == filtered_files(call.dir.entries)
             IN  IF call.file_name \notin Range(L) THEN ret = None
                 ELSE LET i == CHOOSE k \in 1..Len(L) : L[k] = call.file_name
                      IN  /\ (call.direction = "Forward" /\ i < Len(L)) => ret = Some(L[i + 1])
                          /\ (call.direction = "Forward" /\ i = Len(L)) => ret = None
                          /\ (call.direction = "Backward" /\ i > 1) => ret = Some(L[i - 1])
                          /\ (call.direction = "Backward" /\ i = 1) => ret = None

\* Forward from the last of three compatible files of [a.png, b.jpg, c.txt,
\* d.gif] finds no next file
C7_Witness ==
    /\ call.fn = "get_next_file"
    /\ ret = None
    /\ call.dir.readable
    /\ Len(call.dir.entries) = 4
    /\ Len(filtered_files(call.dir.entries)) = 3
    /\ call.direction = "Forward"
    /\ call.file_name = filtered_files(call.dir.entries)[3]

\* C8: is_compatible_file holds exactly of the names whose extension is,
\* ignoring ASCII case, one of the seventeen listed; names with another
\* extension or none are dropped, and the kept names of a listing stand in
\* enumeration order.
C8_Filter ==
    /\ (call.fn = "is_compatible_file" /\ ret # NoRet) =>
           (ret.b <=> HasListedExtension(call.path))
    /\ (call.fn = "get_next_file" /\ ret # NoRet /\ call.dir.readable) =>
           LET entries == call.dir.entries
               L == filtered_files(entries)
           IN  /\ Range(L) = {entries[i].name : i \in
                                 {k \in 1..Len(entries) :
                                     entries[k].ok /\ HasListedExtension(entries[k].name)}}
               /\ \A i, j \in 1..Len(L) :
                      i < j => EntryIndex(entries, L[i]) < EntryIndex(entries, L[j])

\* is_compatible_file accepted a name whose extension is spelled in capitals
C8_Witness ==
    /\ call.fn = "is_compatible_file"
    /\ ret = [b |-> TRUE]
    /\ extension(call.path).some
    /\ extension(call.path).v \notin ListedExtensions

(***************************************************************************)
(* Back buffer claims.                                                     *)
(***************************************************************************)
\* C2 as claimed: from one update_backbuffer call to the next neither the
\* allocated width nor the allocated height decreases
C2_NeverShrunk ==
    [][(graphics.backbuffer.some /\ graphics'.backbuffer.some) =>
           /\ graphics'.backbuffer.v.dim[1] >= graphics.backbuffer.v.dim[1]
           /\ graphics'.backbuffer.v.dim[2] >= graphics.backbuffer.v.dim[2]]_vars

Exceeds(client_dim, bb) == client_dim[1] > bb.dim[1] \/ client_dim[2] > bb.dim[2]

\* C3: a call of update_backbuffer that finds a back buffer and returns
\* calls ResizeBuffers, once, exactly if a requested client dimension is
\* above the allocated one on its axis; otherwise view, texture and
\* recorded size stay as they are.
C3_ReallocIffExceeds ==
    [][(call'.fn = "update_backbuffer" /\ call'.n = call.n + 1
            /\ graphics.backbuffer.some /\ ~graphics'.panicked) =>
           IF Exceeds(call'.client_dim, graphics.backbuffer.v)
           THEN /\ graphics'.resizes = graphics.resizes + 1
                /\ graphics'.backbuffer.v.rtv # graphics.backbuffer.v.rtv
           ELSE /\ graphics'.resizes = graphics.resizes
                /\ graphics'.backbuffer = graphics.backbuffer]_vars

\* a call after an earlier growth, with a smaller size on both axes, left
\* the grown back buffer in place
C3_Witness ==
    /\ call.fn = "update_backbuffer"
    /\ graphics.resizes = 2
    /\ call.n = 3
    /\ graphics.backbuffer.some
    /\ graphics.printed = None
    /\ call.client_dim[1] < graphics.backbuffer.v.dim[1] - BACKBUFFER_ALIGN
    /\ call.client_dim[2] < graphics.backbuffer.v.dim[2]

(***************************************************************************)
(* The render loop: wheel zoom and the decode results                      *)
(***************************************************************************)
\* the step of the loop that applies the message received
HandleStep(msg) ==
    /\ pc = "handle"
    /\ pc' # "handle"
    /\ x.v.type = "NativeMessage"
    /\ x.v.msg = msg

\* the step of the loop that polls image_rx and draws
FrameStep == pc = "frame" /\ pc' # "frame"

\* where the cursor is in the image
CursorInImage == transform_point(state.xfm_window_to_image, state.mouse_pos)

\* where the transform after the step puts the cursor of before the step
CursorInImageAfter == transform_point(state'.xfm_window_to_image, state.mouse_pos)

ZoomTerms(offset, scale, mouse, cursor) ==
    f32_max(f32_abs(cursor), f32_max(f32_abs(offset), f32_abs(f32_mul(mouse, scale))))

Polled == polled'.v

\* the frame step applies a failed decode
FailedDecode == FrameStep /\ polled'.some /\ ~Polled.img.ok

\* the frame step applies a decoded image of dimensions other than, or the
\* same as, those of the image displayed
DecodedNewDim ==
    /\ FrameStep
    /\ polled'.some
    /\ Polled.img.ok
    /\ float2_ne(constants.image_dim, float2_from(Polled.img.v))

DecodedSameDim ==
    /\ FrameStep
    /\ polled'.some
    /\ Polled.img.ok
    /\ ~float2_ne(constants.image_dim, float2_from(Polled.img.v))

\* C4: when the render thread processes a failed decode result, the
\* texture, the image dimensions, xfm_window_to_image and the window title
\* are what they were before.
C4_FailureKeepsImage ==
    [][FailedDecode =>
        /\ state'.texture = state.texture
        /\ constants'.image_dim = constants.image_dim
        /\ state'.xfm_window_to_image = state.xfm_window_to_image
        /\ os_window'.title = os_window.title]_vars

\* a failed decode was processed while an image was displayed, zoomed
C4_Witness ==
    /\ pc = "recv"
    /\ polled.some
    /\ ~polled.v.img.ok
    /\ state.texture.some
    /\ os_window.title = state.texture.v.image
    /\ graphics.presented.v.texture = state.texture
    /\ state.xfm_window_to_image.scale = float2_new(F32_0_8, F32_0_8)

\* the transform the Home key gives in the state the step reaches
HomeTransformAfter ==
    on_WM_KEYDOWN([World EXCEPT !.state = state', !.main_window = main_window',
                                !.constants = constants'],
                  "VK_HOME").state.xfm_window_to_image

\* C5: when a decoded image is applied whose dimensions differ from those of
\* the image displayed, the image dimensions become the new ones and the
\* transform becomes scale (1,1) with offset 0.5*image_dim - 0.5*window_dim,
\* which is what the Home key gives in the state reached.
C5_NewDimRecentres ==
    [][DecodedNewDim =>
        /\ constants'.image_dim = float2_from(Polled.img.v)
        /\ state'.xfm_window_to_image =
               Transform2D(FLOAT2_ONE,
                   float2_sub(float2_scale(F32_HALF, constants'.image_dim),
                              float2_scale(F32_HALF, float2_from(main_window'.window_dim))))
        /\ state'.xfm_window_to_image = HomeTransformAfter]_vars

\* e.png, dropped on a zoomed view of the larger a.png, was applied: the
\* frame was set up for the zoomed view, and the view is back at scale 1
C5_Witness ==
    /\ pc = "recv"
    /\ inputs = MaxInputs
    /\ polled.some
    /\ polled.v.img.ok
    /\ polled.v.image_filename = Path("photos", E_PNG)
    /\ state.texture = Some(Texture_new(polled.v.img.v, polled.v.image_filename))
    /\ graphics.presented.v.constants.xfm_viewport_to_image_uv.scale
           \notin {float2_rdiv(F32_ONE, d) : d \in {float2_from(<<2000, 1200>>), FLOAT2_ZERO}}
    /\ state.xfm_window_to_image.scale = FLOAT2_ONE
    /\ constants.image_dim = float2_from(<<640, 480>>)

\* C6: when a decoded image is applied whose dimensions equal those of the
\* image displayed, xfm_window_to_image, the image dimensions, the window
\* size and rectangle and the full-screen flag are unchanged; the texture
\* becomes the new image and the window title its file name.
C6_SameDimPreserves ==
    [][DecodedSameDim =>
        /\ state'.xfm_window_to_image = state.xfm_window_to_image
        /\ constants'.image_dim = constants.image_dim
        /\ main_window' = main_window
        /\ os_window'.rect = os_window.rect
        /\ os_window'.popup = os_window.popup
        /\ state'.texture = Some(Texture_new(Polled.img.v, Polled.image_filename))
        /\ os_window'.title = SetWindowTextW(os_window, Polled.image_filename).title]_vars

\* b.jpg, of the dimensions of a.png, was applied to a zoomed view of a.png:
\* the view is still zoomed
C6_Witness ==
    /\ pc = "recv"
    /\ polled.some
    /\ polled.v.img.ok
    /\ polled.v.image_filename = Path("photos", B_JPG)
    /\ state.texture = Some(Texture_new(polled.v.img.v, polled.v.image_filename))
    /\ os_window.title = polled.v.image_filename
    /\ graphics.presented.v.texture = state.texture
    /\ graphics.presented.v.constants.xfm_viewport_to_image_uv.scale
           # float2_rdiv(F32_ONE, constants.image_dim)
    /\ state.xfm_window_to_image.scale = float2_new(F32_0_8, F32_0_8)
    /\ message_rx = <<>>

BoxTerms(lo, hi, offset) == f32_max(f32_abs(offset), f32_max(f32_abs(lo), f32_abs(hi)))

C12_ScaleNeverZero == NonzeroScale(state.xfm_window_to_image)

\* zooming out has reached the smallest scale there is: two units of the
\* smallest f32, which a further wheel step leaves as it is
C12_Witness ==
    /\ call.fn = "zoom"
    /\ state.xfm_window_to_image.scale.x = f32_fin(0, 2, F32_MIN_EXP)
    /\ on_WM_MOUSEWHEEL(World, 120).state.xfm_window_to_image.scale.x
           = state.xfm_window_to_image.scale.x
    /\ state.is_dragging

\* C13: a WM_SIZE handled while is_resizing is set, between
\* WM_ENTERSIZEMOVE and WM_EXITSIZEMOVE, leaves the backbuffer as it is:
\* no ResizeBuffers call, the same buffer bound.
C13_ResizeDeferred ==
    [][(HandleStep("WM_SIZE") /\ state.is_resizing) =>
           (graphics'.resizes = graphics.resizes /\ graphics'.backbuffer = graphics.backbuffer)]_vars

\* the native messages whose arm can set should_draw
DrawMessages ==
    {"WM_PAINT", "WM_MOUSEWHEEL", "WM_MOUSEMOVE", "WM_KEYDOWN", "WM_SIZE", "WM_EXITSIZEMOVE"}

\* C14: a frame is drawn only with should_draw set, it adds exactly one to
\* frame_number and clears should_draw; frame_number changes in no other
\* step, and should_draw is set again only by handling one of the messages
\* that draw.  So between two frames there is such a message.
C14_FrameGating ==
    [][/\ (FrameStep /\ pc' # "panic") =>
              /\ should_draw
              /\ state'.frame_number = state.frame_number + 1
              /\ ~should_draw'
       /\ ~FrameStep => state'.frame_number = state.frame_number
       /\ (~should_draw /\ should_draw') =>
              /\ pc = "handle"
              /\ x.v.type = "NativeMessage"
              /\ x.v.msg \in DrawMessages]_vars

\* a second frame has been drawn, after a message that asked for it
C14_Witness ==
    /\ state.frame_number = 2
    /\ ~should_draw
    /\ graphics.presented.some

\* the constants derived from the viewer state as the step leaves it
ConstantsAfter ==
    update_constants([World EXCEPT !.state = state', !.main_window = main_window',
                                   !.constants = constants']).constants

\* C15: the constants uploaded for a frame are those derived from the
\* viewer state as it is after the decode result polled in the same
\* iteration has been applied: image_dim, window_dim and
\* xfm_viewport_to_image_uv all agree with the texture bound for the frame.
C15_FrameConstantsCurrent ==
    [][(FrameStep /\ pc' # "panic") =>
           /\ graphics'.presented.v.texture = state'.texture
           /\ graphics'.presented.v.constants = ConstantsAfter]_vars

\* s is the beginning of t
IsPrefix(s, t) == Len(s) <= Len(t) /\ SubSeq(t, 1, Len(s)) = s

\* the step of the loop that receives a message
RecvStep == pc = "recv" /\ pc' = "handle"

\* C16: the render thread receives the oldest message of the queue and
\* removes just that one; every other step only adds messages at the end of
\* the queue; the message received is the one the next step of the loop
\* applies, once.  So messages are applied in the order they were pushed,
\* none twice and none skipped.
C16_ArrivalOrder ==
    [][/\ RecvStep =>
              /\ message_rx # <<>>
              /\ x' = Some(Head(message_rx))
              /\ message_rx' = Tail(message_rx)
              /\ state' = state
       /\ ~RecvStep => IsPrefix(message_rx, message_rx')
       /\ pc = "handle" =>
              /\ x.some
              /\ pc' # "handle" =>
                     /\ state' = on_message(World, x.v).state
                     /\ x' = None
       /\ (pc # "handle" /\ ~RecvStep) => x' = x]_vars

\* a message is being applied while a later, different one waits
C16_Witness ==
    /\ pc = "handle"
    /\ x.some
    /\ message_rx # <<>>
    /\ Head(message_rx) # x.v

\* the step of the decode thread that takes a request and sends its result
DecodeStep == loader = "recv" /\ loader' = "invalidate"

\* C17: each step of the decode thread takes one request and pushes one
\* result for it, Ok or Err as image::open says, and no other step pushes
\* a result or takes a request; a request is submitted by appending it to
\* the request queue, whatever is waiting there.
C17_OneResultPerRequest ==
    [][/\ DecodeStep =>
              /\ load_req_rx # <<>>
              /\ load_req_rx' = Tail(load_req_rx)
              /\ image_rx' = Append(image_rx, [img |-> image_open(Head(load_req_rx)),
                                               image_filename |-> Head(load_req_rx)])
       /\ ~DecodeStep =>
              /\ image_rx' = image_rx \/ (image_rx # <<>> /\ image_rx' = Tail(image_rx))
              /\ IsPrefix(load_req_rx, load_req_rx')
              /\ Len(load_req_rx') <= Len(load_req_rx) + 1]_vars

\* two requests, one that decodes and one that does not, have each had
\* their result pushed
C17_Witness ==
    /\ Len(image_rx) = 2
    /\ image_rx[1].img.ok
    /\ ~image_rx[2].img.ok
    /\ load_req_rx = <<>>

\* C18: the decode thread takes the oldest request and puts its result
\* behind the results already waiting; requests are submitted behind those
\* waiting; the frame polls the oldest result.  So results are pushed, and
\* applied, in the order of their requests.
C18_ResultOrder ==
    [][/\ DecodeStep =>
              /\ IsPrefix(image_rx, image_rx')
              /\ Len(image_rx') = Len(image_rx) + 1
              /\ image_rx'[Len(image_rx')].image_filename = Head(load_req_rx)
              /\ load_req_rx' = Tail(load_req_rx)
       /\ ~DecodeStep => IsPrefix(load_req_rx, load_req_rx')
       /\ FrameStep =>
              /\ image_rx # <<>> => (polled' = Some(Head(image_rx)) /\ image_rx' = Tail(image_rx))
              /\ image_rx = <<>> => (polled' = None /\ image_rx' = image_rx)
       /\ ~FrameStep => polled' = polled]_vars

\* the results of two requests wait in the order of the requests: the
\* later one is that of the current path
C18_Witness ==
    /\ Len(image_rx) = 2
    /\ image_rx[1].image_filename # image_rx[2].image_filename
    /\ image_path = Some(image_rx[2].image_filename)

\* the open attempts that have failed
ClipboardFailures == call.opens - (IF call.empties > 0 \/ call.at = "empty" THEN 1 ELSE 0)

ClipboardGaveUp == call.at = "done" /\ ret = anyhow("Failed to open clipboard")

\* C19 as claimed, as to the delays: when the function gives up, every
\* failed open has been followed by a delay of 10 ms
C19_DelayAfterEachFailure ==
    (call.fn = "write_bitmap_to_clipboard" /\ ClipboardGaveUp) =>
        call.slept_ms = CLIPBOARD_RETRY_DELAY_MS * ClipboardFailures

\* C19: write_bitmap_to_clipboard returns, after at most 51 open attempts.
\* It gives up with the open error exactly when 51 opens have failed,
\* having slept 10 ms after each of the first 50 and not after the last.
\* Once an open succeeds there is no further open and no further delay
\* (10 ms were slept after each failure before it), the clipboard is
\* cleared at most once and written at most twice (CF_BITMAP, then CF_DIB),
\* and the result is Ok or the error of the step that failed.
C19_BoundedOpen ==
    /\ [](call.fn = "write_bitmap_to_clipboard" =>
            /\ call.opens <= CLIPBOARD_OPEN_RETRIES + 1
            /\ call.attempts = IF ClipboardGaveUp THEN 0
                               ELSE CLIPBOARD_OPEN_RETRIES - ClipboardFailures
            /\ call.attempts >= 0
            /\ ClipboardGaveUp =>
                   /\ call.opens = CLIPBOARD_OPEN_RETRIES + 1
                   /\ ClipboardFailures = CLIPBOARD_OPEN_RETRIES + 1
                   /\ call.slept_ms = CLIPBOARD_RETRY_DELAY_MS * CLIPBOARD_OPEN_RETRIES
                   /\ call.empties = 0 /\ call.sets = 0
            /\ call.at = "sleep" =>
                   call.slept_ms = CLIPBOARD_RETRY_DELAY_MS * (ClipboardFailures - 1)
            /\ (call.at \in {"open", "empty", "set_bitmap", "set_dib"}
                    \/ (call.at = "done" /\ ~ClipboardGaveUp)) =>
                   call.slept_ms = CLIPBOARD_RETRY_DELAY_MS * ClipboardFailures
            /\ call.at \in {"empty", "set_bitmap", "set_dib"} \/ (call.at = "done" /\ ~ClipboardGaveUp) =>
                   /\ call.opens = ClipboardFailures + 1
                   /\ call.empties <= 1
                   /\ call.sets <= 2
            /\ call.at = "done" =>
                   /\ ret \in {Ok(<<>>), anyhow("Failed to open clipboard"),
                                anyhow("Failed to clear clipboard"),
                                anyhow("Failed to set CF_BITMAP"), anyhow("Failed to set CF_DIB")}
                   /\ ret = Ok(<<>>) => (call.empties = 1 /\ call.sets = 2)
                   /\ ~call.holds)
    /\ <>(call.at = "done")

\* the function has given up after 51 failed opens
C19_Witness ==
    /\ call.fn = "write_bitmap_to_clipboard"
    /\ ClipboardGaveUp
    /\ call.opens = CLIPBOARD_OPEN_RETRIES + 1

\* the decode requests waiting, the results waiting and the image shown
StartupLoads ==
    Len(load_req_rx) + Len(image_rx) + (IF state.texture.some THEN 1 ELSE 0)

\* C20: the loop starts with the path of the command line as the current
\* path and one decode request for it, or with neither.  Until a message of
\* the user is handled there is one load of the current path, as a request,
\* a result or the image shown, if there is a current path, and none if
\* there is not.  Without a current path there is no request, no result and
\* no texture, and only an OpenFile message gives a current path.
C20_Startup ==
    /\ (pc = "recv" /\ message_rx = <<>> /\ ~state.texture.some /\ image_rx = <<>>
         /\ load_req_rx = (IF image_path.some THEN <<image_path.v>> ELSE <<>>))
    /\ [](inputs = 0 =>
            /\ StartupLoads = (IF image_path.some THEN 1 ELSE 0)
            /\ \A i \in 1..Len(load_req_rx) : load_req_rx[i] = image_path.v
            /\ \A i \in 1..Len(image_rx) : image_rx[i].image_filename = image_path.v
            /\ state.texture.some => state.texture.v.image = image_path.v)
    /\ [](~image_path.some =>
            (load_req_rx = <<>> /\ image_rx = <<>> /\ ~polled.some /\ ~state.texture.some))
    /\ [][(~image_path.some /\ image_path'.some) =>
             (pc = "handle" /\ x.v.type = "OpenFile" /\ image_path' = Some(x.v.filename)
              /\ load_req_rx' = <<x.v.filename>>)]_vars

\* started with a path, the image of that path is shown before the user
\* has done anything
C20_Witness ==
    /\ inputs = 0
    /\ image_path.some
    /\ state.texture.some
    /\ state.texture.v.image = image_path.v
    /\ load_req_rx = <<>>
    /\ image_rx = <<>>

\* a step that ends an iteration of the loop: the match has handled a
\* message, or try_recv() found none and there is nothing to draw, or the
\* frame is done
IterationEnds ==
    \/ pc = "handle" /\ pc' = "recv"
    \/ pc = "recv" /\ pc' = "recv" /\ ~should_block /\ should_block'
    \/ pc = "frame" /\ pc' = "recv"

\* C21: every iteration of the loop polls image_rx once, so an iteration
\* that ends with a result waiting has taken the oldest result, whether it
\* received a message and whether it drew a frame.
C21_PollEveryIteration ==
    [][(IterationEnds /\ image_rx # <<>>) =>
           (polled' = Some(Head(image_rx)) /\ image_rx' = Tail(image_rx))]_vars

\* the step is an iteration of the loop that handles the message m
ViewHandles(m) == call.fn = "view" /\ call'.msg = Some(m)

\* C22: pointer-down starts the drag with drag_origin = mouse_pos -
\* inverse(xfm_window_to_image).offset and leaves the transform; a pointer
\* move while dragging sets the offset to (drag_origin - mouse_pos) * scale
\* elementwise, with the new position of the pointer, and leaves the scale;
\* a pointer move while not dragging leaves the transform; pointer-up leaves
\* the transform and ends the drag.
C22_Pan ==
    [][/\ ViewHandles(<<"WM_LBUTTONDOWN", 0>>) =>
              /\ state'.is_dragging
              /\ state'.drag_origin =
                     float2_sub(state.mouse_pos, inverse(state.xfm_window_to_image).offset)
              /\ state'.xfm_window_to_image = state.xfm_window_to_image
       /\ \A p \in MousePositions : ViewHandles(<<"WM_MOUSEMOVE", p>>) =>
              /\ state'.mouse_pos = float2_from(p)
              /\ state'.drag_origin = state.drag_origin
              /\ state'.is_dragging = state.is_dragging
              /\ state'.xfm_window_to_image.scale = state.xfm_window_to_image.scale
              /\ state'.xfm_window_to_image.offset =
                     IF state.is_dragging
                     THEN mul_element_wise(float2_sub(state.drag_origin, float2_from(p)),
                                           state.xfm_window_to_image.scale)
                     ELSE state.xfm_window_to_image.offset
       /\ ViewHandles(<<"WM_LBUTTONUP", 0>>) =>
              /\ ~state'.is_dragging
              /\ state'.xfm_window_to_image = state.xfm_window_to_image]_vars

\* the image has been dragged at a scale other than 1
C22_Witness ==
    /\ call.fn = "view"
    /\ call.msg = Some(<<"WM_MOUSEMOVE", <<100, 50>>>>)
    /\ state.is_dragging
    /\ state.xfm_window_to_image.scale # FLOAT2_ONE
    /\ state.xfm_window_to_image.offset =
           mul_element_wise(float2_sub(state.drag_origin, state.mouse_pos),
                            state.xfm_window_to_image.scale)
    /\ ~IsZero(state.xfm_window_to_image.offset.x)

\* C23: a wheel step ends the drag; is_dragging is set again only by
\* pointer-down; and a pointer move with is_dragging clear leaves the
\* transform as it is.  So after a wheel step pointer moves do not change
\* the transform until the next pointer-down.
C23_WheelEndsDrag ==
    [][/\ \A d \in {120, -120} : ViewHandles(<<"WM_MOUSEWHEEL", d>>) => ~state'.is_dragging
       /\ (~state.is_dragging /\ state'.is_dragging) => ViewHandles(<<"WM_LBUTTONDOWN", 0>>)
       /\ \A p \in MousePositions :
              (ViewHandles(<<"WM_MOUSEMOVE", p>>) /\ ~state.is_dragging) =>
                  state'.xfm_window_to_image = state.xfm_window_to_image]_vars

\* a wheel step has ended a drag: pointer-down and the wheel step are the
\* two inputs there have been, and pointer-down gave a drag origin
C23_Witness ==
    /\ call.fn = "view"
    /\ inputs = 2
    /\ call.msg = Some(<<"WM_MOUSEWHEEL", 120>>)
    /\ state.drag_origin # FLOAT2_ZERO
    /\ ~state.is_dragging

\* the scale of zoom key k: 1, 1/2, 1/4, 1/8, 1/16 as f32
ZoomKeyScale(k) ==
    CASE k = "1" -> f32_fin(0, Pow2(F32_MANT_BITS - 1), 1 - F32_MANT_BITS)
      [] k = "2" -> f32_fin(0, Pow2(F32_MANT_BITS - 1), 0 - F32_MANT_BITS)
      [] k = "3" -> f32_fin(0, Pow2(F32_MANT_BITS - 1), 0 - F32_MANT_BITS - 1)
      [] k = "4" -> f32_fin(0, Pow2(F32_MANT_BITS - 1), 0 - F32_MANT_BITS - 2)
      [] k = "5" -> f32_fin(0, Pow2(F32_MANT_BITS - 1), 0 - F32_MANT_BITS - 3)

\* C24: a zoom key '1'..'5' sets the scale to (s, s) with s = 1, 1/2, 1/4,
\* 1/8, 1/16, whatever the scale was, and leaves the offset, is_dragging,
\* drag_origin and the current path as they were.
C24_ZoomKeys ==
    [][\A k \in ZoomKeys : ViewHandles(<<"WM_KEYDOWN", k>>) =>
           /\ state'.xfm_window_to_image.scale = float2_new(ZoomKeyScale(k), ZoomKeyScale(k))
           /\ state'.xfm_window_to_image.offset = state.xfm_window_to_image.offset
           /\ state'.is_dragging = state.is_dragging
           /\ state'.drag_origin = state.drag_origin
           /\ image_path' = image_path]_vars

\* key '4' has set the scale to 1/8 in the middle of a drag, as the third
\* input
C24_Witness ==
    /\ call.fn = "view"
    /\ call.msg = Some(<<"WM_KEYDOWN", "4">>)
    /\ inputs = 3
    /\ state.is_dragging
    /\ state.xfm_window_to_image.scale = float2_new(f32_div(F32_ONE, f32_from_int(8)),
                                                     f32_div(F32_ONE, f32_from_int(8)))

\* the dimensions of the image shown, (0, 0) if there is none
ShownImageDim ==
    IF state.texture.some THEN float2_from(state.texture.v.dim) ELSE FLOAT2_ZERO

EdgeDelta ==
    float2_from(<<os_window'.rect.left - main_window.window_rect.left,
                  os_window'.rect.top - main_window.window_rect.top>>)

\* C28: a size message sets viewport_dim and window_dim to the new client
\* size, adds (movement of the top-left corner of the window from the
\* rectangle recorded) * scale elementwise to the offset, leaves the scale,
\* and records the new window rectangle; with no movement of the top-left
\* corner the transform is as it was.
C28_ResizeAnchored ==
    [][\A d \in {dim(GetClientRect(os_window'))} : ViewHandles(<<"WM_SIZE", d>>) =>
           /\ state'.viewport_dim = float2_from(d)
           /\ main_window'.window_dim = d
           /\ main_window'.window_rect = os_window'.rect
           /\ state'.xfm_window_to_image.scale = state.xfm_window_to_image.scale
           /\ state'.xfm_window_to_image.offset =
                  IF EdgeDelta = FLOAT2_ZERO
                  THEN state.xfm_window_to_image.offset
                  ELSE float2_add(state.xfm_window_to_image.offset,
                                  mul_element_wise(EdgeDelta, state.xfm_window_to_image.scale))]_vars

\* the top-left corner has been dragged out at a scale other than 1, and
\* the offset has moved
C28_Witness ==
    /\ call.fn = "view"
    /\ call.msg = Some(<<"WM_SIZE", main_window.window_dim>>)
    /\ state.xfm_window_to_image.scale = float2_new(F32_0_8, F32_0_8)
    /\ ~IsZero(state.xfm_window_to_image.offset.x)
    /\ ~state.texture.some

\* the navigation messages and the direction each steps in
NavMessages ==
    {<<<<"WM_KEYDOWN", "VK_LEFT">>, "Backward">>, <<<<"WM_KEYDOWN", "VK_RIGHT">>, "Forward">>,
     <<<<"WM_XBUTTONDOWN", 1>>, "Backward">>, <<<<"WM_XBUTTONDOWN", 2>>, "Forward">>}

\* the neighbour of the current path in direction d, if there is one
Neighbour(d) ==
    IF image_path.some
    THEN get_next_file(read_dir(image_path.v.parent), image_path.v.file_name, d)
    ELSE None

\* C26: a navigation message that resolves a neighbour appends one request
\* for the neighbour in the directory of the current path, and makes that
\* path the current one in the same step; the viewer state, with the
\* texture and the transform, and the results waiting are as they were.
C26_NavigateRequests ==
    [][\A n \in NavMessages : (ViewHandles(n[1]) /\ Neighbour(n[2]).some) =>
           /\ load_req_rx' = Append(load_req_rx, Path(image_path.v.parent, Neighbour(n[2]).v))
           /\ image_path' = Some(Path(image_path.v.parent, Neighbour(n[2]).v))
           /\ state' = state
           /\ image_rx' = image_rx]_vars

\* Right has been pressed with a.png shown: b.jpg is the current path and
\* is requested, a.png is still shown
C26_Witness ==
    /\ call.fn = "view"
    /\ call.msg = Some(<<"WM_KEYDOWN", "VK_RIGHT">>)
    /\ image_path = Some(Path("photos", B_JPG))
    /\ load_req_rx = <<Path("photos", B_JPG)>>
    /\ state.texture.some
    /\ state.texture.v.image = Path("photos", A_PNG)

\* C27: a navigation message that resolves no neighbour, at the first or
\* the last file, with the current file not in the filtered listing, with a
\* directory that cannot be read, or with no current path, appends no
\* request and leaves the current path.
C27_NavigateNowhere ==
    [][\A n \in NavMessages : (ViewHandles(n[1]) /\ ~Neighbour(n[2]).some) =>
           /\ load_req_rx' = load_req_rx
           /\ image_path' = image_path]_vars

\* the message m has been handled with current path path, and nothing is
\* requested
NavigatedNowhere(m, path) ==
    /\ call.fn = "view"
    /\ call.msg = Some(m)
    /\ image_path = path
    /\ load_req_rx = <<>>

\* side button 1 has been pressed at the first file of the directory
C27_Witness == NavigatedNowhere(<<"WM_XBUTTONDOWN", 1>>, Some(Path("photos", A_PNG)))

\* the places in ops of the operation op
OpsAt(op) == {i \in 1..Len(graphics.ops) : graphics.ops[i].op = op}

\* C29: in a call of update_backbuffer that resizes the swapchain buffers,
\* the backbuffer with its render-target view is let go before
\* ResizeBuffers, no view is held when ResizeBuffers is called, and the new
\* view and the size record are made after it; each happens once.
C29_ReleaseBeforeResize ==
    \A i \in OpsAt("ResizeBuffers") :
        /\ ~graphics.ops[i].held.some
        /\ OpsAt("ResizeBuffers") = {i}
        /\ \E j \in OpsAt("Release") : j < i /\ OpsAt("Release") = {j}
        /\ \E k \in OpsAt("CreateRenderTargetView") :
               /\ k > i
               /\ OpsAt("CreateRenderTargetView") = {k}
               /\ ~graphics.ops[k].held.some
        /\ graphics.backbuffer.some
        /\ graphics.backbuffer.v.rtv = graphics.resizes

\* a backbuffer that was there has been replaced
C29_Witness ==
    /\ call.fn = "update_backbuffer"
    /\ OpsAt("ResizeBuffers") # {}
    /\ graphics.ops[1].op = "Release"
    /\ graphics.ops[1].held.some
    /\ graphics.ops[1].held.v.rtv # graphics.backbuffer.v.rtv

\* the size update_backbuffer asks for with a client area of client_dim
TargetDim(client_dim) ==
    <<align_up(client_dim[1], BACKBUFFER_ALIGN), align_up(client_dim[2], BACKBUFFER_ALIGN)>>

\* the backbuffer bb is large enough for the size target
Covers(bb, target) ==
    bb.some /\ bb.v.dim[1] >= target[1] /\ bb.v.dim[2] >= target[2]

\* C30: no backbuffer has a width or a height of 16384 or more.  A call
\* that has to reallocate with a target of 16384 or more on an axis fails
\* its assertion, without a ResizeBuffers call and without a backbuffer
\* made; a call that has to reallocate below that does not fail; a call
\* that has not to reallocate does not fail and leaves the backbuffer.
C30_Ceiling ==
    /\ [](graphics.backbuffer.some =>
            /\ graphics.backbuffer.v.dim[1] < BACKBUFFER_DIM_LIMIT
            /\ graphics.backbuffer.v.dim[2] < BACKBUFFER_DIM_LIMIT)
    /\ [][(call'.fn = "update_backbuffer" /\ call'.n = call.n + 1) =>
             IF Covers(graphics.backbuffer, TargetDim(call'.client_dim))
             THEN /\ ~graphics'.panicked
                  /\ graphics'.backbuffer = graphics.backbuffer
                  /\ graphics'.resizes = graphics.resizes
             ELSE IF TargetDim(call'.client_dim)[1] >= BACKBUFFER_DIM_LIMIT
                        \/ TargetDim(call'.client_dim)[2] >= BACKBUFFER_DIM_LIMIT
             THEN /\ graphics'.panicked
                  /\ ~graphics'.backbuffer.some
                  /\ graphics'.resizes = graphics.resizes
             ELSE /\ ~graphics'.panicked
                  /\ graphics'.backbuffer.some
                  /\ graphics'.backbuffer.v.dim = TargetDim(call'.client_dim)]_vars

\* a client area 15873 wide, which rounds up to 16384, has failed the
\* assertion after a backbuffer of 15872 had been allocated
C30_Witness ==
    /\ call.fn = "update_backbuffer"
    /\ call.client_dim[1] = BACKBUFFER_DIM_LIMIT - BACKBUFFER_ALIGN + 1
    /\ graphics.panicked
    /\ ~graphics.backbuffer.some
    /\ graphics.ops[1].held.some
    /\ graphics.ops[1].held.v.dim[1] = BACKBUFFER_DIM_LIMIT - BACKBUFFER_ALIGN

\* C31: while the render loop runs, and so whenever it reaches the draw, the
\* backbuffer is present; the loop does not end on the expectation
\* 'Back buffer must be created before rendering a frame': where the
\* backbuffer is absent, update_backbuffer has failed an assertion and the
\* process has ended.
C31_BackbufferWhenDrawn ==
    /\ Running => graphics.backbuffer.some
    /\ pc = "panic" => graphics.panicked \/ graphics.backbuffer.some

\* the loop has reached the draw after WM_SIZE messages made
\* update_backbuffer release the backbuffer and allocate a larger one
C31_Witness ==
    /\ pc = "frame"
    /\ graphics.resizes >= 2
    /\ graphics.ops # <<>>
    /\ graphics.ops[1].held.some
    /\ graphics.backbuffer.some

\* C32: a texture that is present stays present: no step leaves
\* state.texture absent after it was present, and no frame is presented
\* without a texture after a frame was presented with one.  The texture
\* changes only in a frame that polled a successful decode result, and then
\* it is the texture made of that result.
C32_NoTextureGap ==
    [][/\ state.texture.some => state'.texture.some
       /\ (graphics.presented.some /\ graphics.presented.v.texture.some) =>
              graphics'.presented.v.texture.some
       /\ state'.texture # state.texture =>
              /\ pc = "frame"
              /\ polled'.some
              /\ polled'.v.img.ok
              /\ state'.texture =
                     Some(Texture_new(polled'.v.img.v, polled'.v.image_filename))
              /\ graphics'.presented.v.texture = state'.texture]_vars

\* b.jpg, which is reached from a.png only, is the texture of the frame
\* presented: it has replaced the texture of a.png
C32_Witness ==
    /\ state.texture.some
    /\ state.texture.v.image = Path("photos", B_JPG)
    /\ graphics.presented.some
    /\ graphics.presented.v.texture = state.texture
    /\ state.frame_number >= 2

\* C33: a frame that finds a successful decode result in the queue installs
\* the texture of that result and presents it, whatever the current path
\* is, and leaves the current path as it is.
C33_AppliesWhateverArrives ==
    [][(FrameStep /\ image_rx # <<>> /\ Head(image_rx).img.ok) =>
           /\ state'.texture = Some(Texture_new(Head(image_rx).img.v,
                                                Head(image_rx).image_filename))
           /\ graphics'.presented.v.texture = state'.texture
           /\ image_path' = image_path]_vars

\* the last frame has applied a.png while the current path was b.jpg
\* already: b.jpg is the one request not yet applied, so the path was set
\* by VK_RIGHT from a.png, which sets should_draw, and should_draw is clear
\* only after a frame
C33_Witness ==
    /\ image_path = Some(Path("photos", B_JPG))
    /\ polled.some
    /\ polled.v.img.ok
    /\ polled.v.image_filename = Path("photos", A_PNG)
    /\ state.texture = Some(Texture_new(polled.v.img.v, polled.v.image_filename))
    /\ graphics.presented.v.texture = state.texture
    /\ ~should_draw
    /\ load_req_rx \o [i \in DOMAIN image_rx |-> image_rx[i].image_filename]
           = <<Path("photos", B_JPG)>>

\* the step of the loop whose receive returns no message
RecvNoneStep == pc = "recv" /\ (pc' = "frame" \/ (pc' = "recv" /\ should_block' # should_block))

\* C34: the loop starts with should_block set.  A receive returns no message
\* only when it does not block and the queue is empty, and sets
\* should_block, so the next receive blocks; an iteration that received a
\* message clears should_block, so the next receive does not block; the
\* frame and the receive of a message leave should_block alone, and a frame
\* is drawn with should_block set only.  So a receive that finds the queue
\* empty without blocking follows an iteration that received a message.
C34_BlockOrPoll ==
    /\ (should_block = TRUE /\ pc = "recv")
    /\ [][/\ RecvNoneStep => ~should_block /\ message_rx = <<>> /\ should_block'
          /\ (pc = "handle" /\ pc' # "handle") => ~should_block'
          /\ RecvStep => message_rx # <<>> /\ should_block' = should_block
          /\ FrameStep => should_block /\ should_block'
          /\ should_block' # should_block =>
                 RecvNoneStep \/ (pc = "handle" /\ pc' # "handle")]_vars

\* the loop is blocked on the empty queue after it has handled a message
\* and drawn the frame for it
C34_Witness ==
    /\ pc = "recv"
    /\ should_block
    /\ message_rx = <<>>
    /\ ~should_draw
    /\ inputs >= 1
    /\ state.frame_number >= 2

\* C35: a decode result in the result queue is taken by the render thread,
\* and the queue is emptied, unless the loop has ended.
C35_ResultsConsumed ==
    (image_rx # <<>>) ~> (image_rx = <<>> \/ ~Running)

\* three results are waiting while the loop is blocked on the empty message
\* queue and the user sends nothing more
C35_Witness ==
    /\ Len(image_rx) = MaxLoadInputs + 1
    /\ load_req_rx = <<>>
    /\ pc = "recv"
    /\ should_block
    /\ message_rx = <<>>
    /\ inputs = MaxLoadInputs
    /\ ~os_window.destroyed

\* the clipboard holds a file list with a path in it
HoldsFilePath(clip) ==
    clip.file_list.some /\ clip.file_list.v.ok /\ clip.file_list.v.v # <<>>

\* the clipboard holds a text whose first line names a file that exists
HoldsTextPath(clip) ==
    /\ clip.unicode.some
    /\ clip.unicode.v.ok
    /\ path_exists(trim_matches(trim(first_line(trim(clip.unicode.v.v))), {"\""}))

\* the format d of the clipboard holds data that decodes
Decodes(d) == d.some /\ d.v.ok /\ d.v.v.image.ok

\* DIB data that holds a header of BITMAPINFOHEADER size or more
HasDibHeader(dib_data) ==
    /\ dib_data.len >= BITMAPINFOHEADER_SIZE
    /\ dib_data.header_size >= BITMAPINFOHEADER_SIZE
    /\ dib_data.header_size <= dib_data.len

HoldsImage(clip) ==
    \/ Decodes(clip.bitmap)
    \/ Decodes(clip.dib) /\ HasDibHeader(clip.dib.v.v)

\* get_clipboard_image has returned
ImageRead == call.fn = "get_clipboard_image" /\ ret # NoRet

DibRead(clip) == ~Decodes(clip.bitmap) /\ clip.dib.some /\ clip.dib.v.ok

C37_NoRedrawSleptOn ==
    /\ []((pc = "recv" /\ should_block /\ should_draw) =>
             (state.frame_number = 0 /\ ~graphics.presented.some))
    /\ [][/\ (IterationEnds /\ should_block') => ~should_draw'
          /\ (RecvNoneStep /\ should_draw) => pc' = "frame"
          /\ (pc # "frame" /\ pc' = "frame") =>
                 (RecvNoneStep /\ message_rx = <<>> /\ should_draw)
          /\ (pc = "handle" /\ pc' # "handle") =>
                 /\ state'.frame_number = state.frame_number
                 /\ graphics'.presented = graphics.presented]_vars

\* the frame for a message handled while dragging has been presented, and
\* the loop is at a blocking receive with nothing left to draw
C37_Witness ==
    /\ pc = "recv"
    /\ should_block
    /\ ~should_draw
    /\ graphics.presented.some
    /\ graphics.presented.v.present_interval = 0
    /\ state.is_dragging

\* the messages the match of the loop has an arm for
HandledTypes == {"OpenFile", "WindowClosed", "NativeMessage"}

\* C38: every message in the queue of the loop, and the message the loop
\* has received, is OpenFile, WindowClosed or NativeMessage; the loop starts
\* with the WindowCreated message taken out of the queue, and does not end
\* in the panic of the match.
C38_NoUnhandledMessage ==
    /\ \A i \in DOMAIN message_rx : message_rx[i].type \in HandledTypes
    /\ x.some => x.v.type \in HandledTypes
    /\ pc # "panic"

\* the loop has handled the OpenFile of a dropped file, drawn frames for
\* paint messages, and left on WindowClosed
C38_Witness ==
    /\ pc = "exit"
    /\ should_exit
    /\ image_path = Some(Path("photos", E_PNG))
    /\ state.frame_number >= 1
    /\ os_window.destroyed

\* the dimensions of the texture t as floats, or zero without a texture
TextureDim(t) == IF t.some THEN float2_from(t.v.dim) ELSE FLOAT2_ZERO

\* C39: constants.image_dim is the pixel dimensions of the current texture,
\* and (0, 0) while there is none; so are the dimensions uploaded with each
\* frame those of the texture the frame draws.
C39_ImageDimTracksTexture ==
    /\ constants.image_dim = TextureDim(state.texture)
    /\ graphics.presented.some =>
          graphics.presented.v.constants.image_dim = TextureDim(graphics.presented.v.texture)

\* e.png is shown with its dimensions tracked, and the last result
\* processed was a failed decode
C39_Witness ==
    /\ state.texture.some
    /\ state.texture.v.image = Path("photos", E_PNG)
    /\ constants.image_dim = float2_from(<<640, 480>>)
    /\ polled.some
    /\ ~polled.v.img.ok

\* a drag is on, with the scale of its pointer-down
Grabbed == call.fn = "drag" /\ call.grabbed.some /\ state.is_dragging

DragClose(axis) ==
    LET xfm == state.xfm_window_to_image
    IN  f32_close(CursorInImage[axis], call.grabbed.v[axis],
                  ZoomTerms(xfm.offset[axis], xfm.scale[axis],
                            state.mouse_pos[axis], call.grabbed.v[axis]))

\* one axis of the offset after a step within rounding of the offset before
DragOffsetClose(axis) ==
    LET xfm == state.xfm_window_to_image
    IN  f32_close(state'.xfm_window_to_image.offset[axis], xfm.offset[axis],
                  ZoomTerms(xfm.offset[axis], xfm.scale[axis],
                            state.mouse_pos[axis], call.grabbed.v[axis]))

====
